---- MODULE Spec2Model ----
(***************************************************************************)
(* Blueprint migration commands of the UnrealMCP plugin: the per-operation *)
(* command classes under Commands/Migration and the monolithic handler     *)
(* FUnrealMCPBlueprintMigrationCommands, run against one host Blueprint,   *)
(* the host class table, the export directory and the wall clock.          *)
(***************************************************************************)
EXTENDS Integers, Sequences, FiniteSets, TLC

VARIABLES
    blueprint,  \* the host's UBlueprint: ParentClass, graph lists, dirty flag
    files,      \* the export directory: file path -> document written there
    now,        \* FDateTime::Now(), in whole seconds
    request,    \* the request being answered (module, command, parameters)
    response,   \* the JSON object returned for it: field name -> value
    effects,    \* the host calls with side effects made while answering it
    served,     \* number of requests answered so far
    RegisteredCommandNames, \* FMigrationCommandRegistration's tracked names
    Commands    \* the command names FUnrealMCPCommandRegistry holds

vars == <<blueprint, files, now, request, response, effects, served,
          RegisteredCommandNames, Commands>>

(***************************************************************************)
(* Bounds of the exploration.                                              *)
(***************************************************************************)
MaxRequests == 2
MaxClock == 1

(***************************************************************************)
(* Sequence helpers.                                                       *)
(***************************************************************************)
RECURSIVE Flatten(_)
Flatten(ss) == IF ss = <<>> THEN <<>> ELSE Head(ss) \o Flatten(Tail(ss))

Range(s) == {s[i] : i \in 1..Len(s)}

(***************************************************************************)
(* The host: reflection (classes and their functions), asset loading.      *)
(***************************************************************************)
\* UFunction* null
NullFunction == [cls |-> "", name |-> ""]
\* UClass* null
NullClass == ""

\* native classes known to the host, with their path names and functions
ClassPath ==
    [OldClass  |-> "/Script/Game.OldClass",
     NewClass  |-> "/Script/Game.NewClass",
     LateClass |-> "/Script/Game.LateClass",
     Actor     |-> "/Script/Engine.Actor",
     AHero     |-> "/Script/Game.AHero",
     UHero     |-> "/Script/Game.UHero",
     UHeroComponent |-> "/Script/Game.UHeroComponent"]

ClassFunctions ==
    [OldClass  |-> {"OldFunc", "Other"},
     NewClass  |-> {"NewFunc", "OldFunc"},
     LateClass |-> {"NewFunc"},
     Actor     |-> {"DoWork"},
     AHero     |-> {},
     UHero     |-> {},
     UHeroComponent |-> {}]

Classes == DOMAIN ClassPath

\* the classes already in memory; the others have to be loaded
LoadedClasses == Classes \ {"LateClass"}

\* UClass::GetSuperClass
SuperClass ==
    [OldClass |-> "Actor", NewClass |-> "Actor", LateClass |-> "Actor",
     Actor |-> NullClass, AHero |-> "Actor", UHero |-> NullClass,
     UHeroComponent |-> NullClass]

RECURSIVE IsChildOf(_, _)
\* UClass::IsChildOf(Base): Base is on the super chain of Class (null Base: never)
IsChildOf(Class, Base) ==
    IF Class = NullClass \/ Base = NullClass THEN FALSE
    ELSE IF Class = Base THEN TRUE
    ELSE IsChildOf(SuperClass[Class], Base)

\* FindObject<UClass>(nullptr, Name): classes already in memory, by name or path
FindObject_UClass(Name) ==
    IF Name \in LoadedClasses THEN Name
    ELSE IF \E c \in LoadedClasses : ClassPath[c] = Name
         THEN CHOOSE c \in LoadedClasses : ClassPath[c] = Name
         ELSE NullClass

\* LoadClass<UObject>(nullptr, Name): loads a class by its path name
LoadClass_UObject(Name) ==
    IF \E c \in Classes : ClassPath[c] = Name
    THEN CHOOSE c \in Classes : ClassPath[c] = Name
    ELSE NullClass

RECURSIVE FindFunctionByName(_, _)
\* UClass::FindFunctionByName: the class's own functions, then its super classes'
FindFunctionByName(Class, Name) ==
    IF Class = NullClass THEN NullFunction
    ELSE IF Name \in ClassFunctions[Class] THEN [cls |-> Class, name |-> Name]
    ELSE FindFunctionByName(SuperClass[Class], Name)

BlueprintName == "BP_Hero"
\* Blueprint->GetPackage()->GetFName()
BlueprintPackage == "/Game/Blueprints/BP_Hero"
\* Blueprint->GetPathName()
BlueprintPathName == BlueprintPackage \o "." \o BlueprintName

\* LoadObject<UBlueprint>(nullptr, Path): by object path or by package name
LoadObject_UBlueprint(Path) == Path \in {BlueprintPathName, BlueprintPackage}

\* FAssetDiscoveryService::FindBlueprints(Name): paths of the matching assets
FindBlueprints(Name) ==
    IF Name = BlueprintName THEN <<BlueprintPathName>> ELSE <<>>

\* FUnrealMCPCommonUtils::FindBlueprint(Name)
CommonUtils_FindBlueprint(Name) == Name = BlueprintName

(***************************************************************************)
(* The graph model held by the host.                                       *)
(***************************************************************************)
Pin(name, direction, category, defaultValue, links) ==
    [name |-> name, direction |-> direction, category |-> category,
     subcategory |-> "", is_array |-> FALSE, is_reference |-> FALSE,
     is_const |-> FALSE, default_value |-> defaultValue,
     default_object |-> "", default_text |-> "", links |-> links]

Link(guid, pin) == [node_guid |-> guid, pin_name |-> pin]

\* member: the event, variable, action or macro a node names (by its class)
Node(guid, class, fn, title, x, y, pins) ==
    [guid |-> guid, class |-> class, fn |-> fn, title |-> title,
     pos_x |-> x, pos_y |-> y, comment |-> "", comment_bubble_visible |-> FALSE,
     is_pure |-> FALSE, member |-> "", member_class |-> NullClass,
     pins |-> pins]

\* UEdGraphNode* null: an entry of Graph->Nodes whose node is gone
NullNode == Node("", "", NullFunction, "", 0, 0, <<>>)

Graph(name, class, nodes) == [name |-> name, class |-> class, nodes |-> nodes]

\* for (Node : Graph->Nodes) if (Node): the entries that hold a node, in order
ValidNodes(graph) == SelectSeq(graph.nodes, LAMBDA n : n # NullNode)

Fn(cls, name) == [cls |-> cls, name |-> name]

EventGraph0 ==
    Graph("EventGraph", "EdGraph",
      << [Node("G1", "K2Node_Event", NullFunction, "Event BeginPlay", 0, 0,
              << Pin("then", "Output", "exec", "", <<Link("G2", "execute")>>) >>)
            EXCEPT !.member = "ReceiveBeginPlay", !.member_class = "Actor"],
         Node("G2", "K2Node_CallFunction", Fn("OldClass", "OldFunc"), "", 200, 0,
              << Pin("execute", "Input", "exec", "", <<Link("G1", "then")>>),
                 Pin("Value", "Input", "int", "5", <<>>),
                 Pin("then", "Output", "exec", "", <<Link("G3", "execute")>>) >>),
         Node("G3", "K2Node_CallFunction", Fn("OldClass", "OldFunc"), "", 400, 0,
              << Pin("execute", "Input", "exec", "", <<Link("G2", "then")>>) >>) >>)

DoWork0 ==
    Graph("DoWork", "EdGraph",
      << Node("G4", "K2Node_FunctionEntry", NullFunction, "DoWork", 0, 0,
              << Pin("then", "Output", "exec", "", <<Link("G5", "execute")>>),
                 Pin("Amount", "Output", "int", "",
                     <<Link("G6", "B"), Link("G5", "A")>>) >>),
         Node("G5", "K2Node_CallFunction", Fn("OldClass", "Other"), "", 200, 0,
              << Pin("execute", "Input", "exec", "", <<Link("G4", "then")>>),
                 Pin("A", "Input", "int", "", <<Link("G4", "Amount")>>) >>),
         Node("G6", "K2Node_CallFunction", NullFunction, "Bad Function", 400, 0,
              << Pin("B", "Input", "int", "", <<Link("G4", "Amount")>>) >>) >>)

Helper0 ==
    Graph("Helper", "EdGraph",
      << Node("G7", "K2Node_FunctionEntry", NullFunction, "Helper", 0, 0,
              << Pin("then", "Output", "exec", "", <<Link("G9", "execute")>>) >>),
         Node("G9", "K2Node_CallFunction", Fn("Actor", "DoWork"), "", 200, 0,
              << Pin("execute", "Input", "exec", "", <<>>) >>) >>)

Macro0 ==
    Graph("MyMacro", "EdGraph",
      << Node("G8", "K2Node_Tunnel", NullFunction, "Inputs", 0, 0, <<>>),
         NullNode >>)

\* UBlueprint::GetAllGraphs: every graph of the Blueprint, list by list
GetAllGraphs(bp) == bp.UbergraphPages \o bp.FunctionGraphs \o bp.MacroGraphs

\* Cast<UK2Node_CallFunction>(Node)
IsCallFunction(node) == node.class = "K2Node_CallFunction"

\* UK2Node_CallFunction::GetTargetFunction
GetTargetFunction(node) == node.fn

\* UFunction::GetOwnerClass()->GetName(), "Unknown" without an owner class
OwnerClassName(fn) == IF fn.cls # NullClass THEN fn.cls ELSE "Unknown"

(***************************************************************************)
(* JSON objects, the export directory, the effects of a handler.           *)
(***************************************************************************)
EmptyObject == [f \in {} |-> ""]

\* FJsonObject::TryGetStringField / TryGetBoolField succeed iff the field is there
HasField(Params, f) == f \in DOMAIN Params

\* TryGetBoolField into a bool that was initialised to false
BoolParam_DefaultFalse(Params, f, default) == HasField(Params, f) /\ Params[f]

\* a bool initialised to its default and overwritten by TryGetBoolField
BoolParam(Params, f, default) == IF HasField(Params, f) THEN Params[f] ELSE default

\* FDateTime::Now().ToString(TEXT("%Y%m%d_%H%M%S")): second resolution
Timestamp(t) == ToString(t)

ExportDir == "Saved/UnrealMCP/Exports"

\* FFileHelper::SaveStringToFile: creates the file or replaces its content
SaveStringToFile(fs, FilePath, Content) ==
    [p \in DOMAIN fs \cup {FilePath} |-> IF p = FilePath THEN Content ELSE fs[p]]

\* one host call with a side effect
Effect(call, arg) == [call |-> call, arg |-> arg]

\* what a handler leaves behind: its response, the Blueprint, the files, its effects
Outcome(resp, bp, fs, eff) ==
    [response |-> resp, blueprint |-> bp, files |-> fs, effects |-> eff]

\* a writer that returns the path whether or not the save went through
WriteJsonToTempFile_AnyPath(fs, FileName, JsonContent, saveOk) ==
    LET FilePath == ExportDir \o "/" \o FileName IN
    IF saveOk
    THEN [path |-> FilePath, files |-> SaveStringToFile(fs, FilePath, JsonContent),
          effects |-> <<Effect("SaveStringToFile", FilePath)>>]
    ELSE [path |-> FilePath, files |-> fs,
          effects |-> <<Effect("SaveStringToFile_failed", FilePath)>>]

\* WriteJsonToTempFile: the path written, or the empty string when the save fails
WriteJsonToTempFile(fs, FileName, JsonContent, saveOk) ==
    LET FilePath == ExportDir \o "/" \o FileName IN
    IF saveOk
    THEN [path |-> FilePath, files |-> SaveStringToFile(fs, FilePath, JsonContent),
          effects |-> <<Effect("SaveStringToFile", FilePath)>>]
    ELSE [path |-> "", files |-> fs,
          effects |-> <<Effect("SaveStringToFile_failed", FilePath)>>]

\* the per-command CreateErrorResponse
CreateErrorResponse(ErrorMessage) == [success |-> FALSE, error |-> ErrorMessage]

\* FUnrealMCPCommonUtils::CreateErrorResponse, used by the monolithic handler
CommonUtils_CreateErrorResponse(ErrorMessage) ==
    [success |-> FALSE, error |-> ErrorMessage]

\* a Blueprint left unmarked
MarkBlueprintAsModified_Skipped(bp) == bp

\* FBlueprintEditorUtils::MarkBlueprintAsModified
MarkBlueprintAsModified(bp) == [bp EXCEPT !.modified = TRUE]

\* the per-command load: LoadObject, else the first asset the discovery service finds
LoadBlueprint(Path) ==
    \/ LoadObject_UBlueprint(Path)
    \/ /\ Len(FindBlueprints(Path)) > 0
       /\ LoadObject_UBlueprint(FindBlueprints(Path)[1])

\* the monolithic handler's load: LoadObject, else FUnrealMCPCommonUtils::FindBlueprint
HandlerLoadBlueprint(Path) ==
    LoadObject_UBlueprint(Path) \/ CommonUtils_FindBlueprint(Path)

(***************************************************************************)
(* redirect_function_call                                                  *)
(***************************************************************************)
\* FindObject<UClass> alone
ResolveTargetClass_NoLoad(TargetClass) == FindObject_UClass(TargetClass)

\* FindObject<UClass>, then LoadClass<UObject>
ResolveTargetClass(TargetClass) ==
    IF FindObject_UClass(TargetClass) # NullClass
    THEN FindObject_UClass(TargetClass)
    ELSE LoadClass_UObject(TargetClass)

\* the call nodes of one graph whose target function is named SourceFunction
MatchesInGraph(graph, SourceFunction) ==
    LET hit(n) == /\ IsCallFunction(n)
                  /\ GetTargetFunction(n) # NullFunction
                  /\ GetTargetFunction(n).name = SourceFunction
        sel == SelectSeq(graph.nodes, hit)
    IN  [i \in 1..Len(sel) |-> [graph |-> graph.name, node |-> sel[i]]]

\* NodesToRedirect: the matches of every graph, in GetAllGraphs and node order
NodesToRedirect(bp, SourceFunction) ==
    LET AllGraphs == GetAllGraphs(bp) IN
    Flatten([g \in 1..Len(AllGraphs) |-> MatchesInGraph(AllGraphs[g], SourceFunction)])

\* a handler that goes on without matches
NothingToRedirect_Never(matches) == FALSE

\* if (NodesToRedirect.Num() == 0)
NothingToRedirect(matches) == Len(matches) = 0

\* one entry of ChangesArray
ChangeJson(match, NewTargetClass, NewFunction) ==
    LET Function == GetTargetFunction(match.node) IN
    [graph |-> match.graph,
     node_guid |-> match.node.guid,
     original_function |-> OwnerClassName(Function) \o "::" \o Function.name,
     new_function |-> NewTargetClass \o "::" \o NewFunction.name,
     pos_x |-> match.node.pos_x,
     pos_y |-> match.node.pos_y]

ChangesArray(matches, NewTargetClass, NewFunction) ==
    [i \in 1..Len(matches) |-> ChangeJson(matches[i], NewTargetClass, NewFunction)]

\* UK2Node_CallFunction::SetFromFunction
SetFromFunction(node, NewFunction) == [node EXCEPT !.fn = NewFunction]

\* a rewrite that reaches every call node of the graph
RedirectNodes_EveryCall(graph, guids, NewFunction) ==
    [graph EXCEPT !.nodes =
        [i \in 1..Len(@) |->
            IF IsCallFunction(@[i]) THEN SetFromFunction(@[i], NewFunction) ELSE @[i]]]

\* the redirect loop, seen from one graph: the nodes of NodesToRedirect are rewritten
RedirectNodes(graph, guids, NewFunction) ==
    [graph EXCEPT !.nodes =
        [i \in 1..Len(graph.nodes) |->
            IF graph.nodes[i].guid \in guids
            THEN SetFromFunction(graph.nodes[i], NewFunction)
            ELSE graph.nodes[i]]]

\* a loop that ends after its first node
ApplyRedirects_FirstOnly(bp, matches, NewFunction) ==
    LET guids == {matches[1].node.guid}
        each(gs) == [i \in 1..Len(gs) |-> RedirectNodes(gs[i], guids, NewFunction)]
    IN  [bp EXCEPT !.UbergraphPages = each(@),
                   !.FunctionGraphs = each(@),
                   !.MacroGraphs = each(@)]

\* for (CallNode : NodesToRedirect) { Modify(); SetFromFunction(NewFunction); }
ApplyRedirects(bp, matches, NewFunction) ==
    LET guids == {matches[i].node.guid : i \in 1..Len(matches)}
        each(gs) == [i \in 1..Len(gs) |-> RedirectNodes(gs[i], guids, NewFunction)]
    IN  [bp EXCEPT !.UbergraphPages = each(@),
                   !.FunctionGraphs = each(@),
                   !.MacroGraphs = each(@)]

RedirectEffects(matches) ==
    [i \in 1..Len(matches) |-> Effect("SetFromFunction", matches[i].node.guid)]

\* the backup document of a redirect
RedirectBackupJson(t, matches, NewTargetClass, NewFunction) ==
    [blueprint_path |-> BlueprintPathName,
     backup_time |-> Timestamp(t),
     original_state |-> ChangesArray(matches, NewTargetClass, NewFunction)]

RedirectBackupFileName(t) ==
    "backup_" \o BlueprintName \o "_" \o Timestamp(t) \o ".json"

\* FRedirectFunctionCallCommand::Execute
Redirect_Execute(req, bp, fs, t, saveOk) ==
    LET P == req.params
        Fail(msg) == Outcome(CreateErrorResponse(msg), bp, fs, <<>>)
    IN
    IF ~req.json THEN Fail("Invalid JSON parameters")
    ELSE IF ~HasField(P, "source_blueprint")
    THEN Fail("Missing 'source_blueprint' parameter")
    ELSE IF ~HasField(P, "source_function")
    THEN Fail("Missing 'source_function' parameter")
    ELSE IF ~HasField(P, "target_class")
    THEN Fail("Missing 'target_class' parameter")
    ELSE IF ~HasField(P, "target_function")
    THEN Fail("Missing 'target_function' parameter")
    ELSE
    LET bDryRun == BoolParam(P, "dry_run", TRUE)
        bBackup == BoolParam(P, "backup", TRUE)
    IN
    IF ~LoadBlueprint(P.source_blueprint)
    THEN Fail("Source Blueprint not found: " \o P.source_blueprint)
    ELSE
    LET NewTargetClass == ResolveTargetClass(P.target_class) IN
    IF NewTargetClass = NullClass
    THEN Fail("Target class not found: " \o P.target_class)
    ELSE
    LET NewFunction == FindFunctionByName(NewTargetClass, P.target_function) IN
    IF NewFunction = NullFunction
    THEN Fail("Target function not found: " \o P.target_class \o "::" \o P.target_function)
    ELSE
    LET matches == NodesToRedirect(bp, P.source_function)
        ResultJson ==
            [success |-> TRUE,
             source_blueprint |-> BlueprintPathName,
             dry_run |-> bDryRun,
             nodes_found |-> Len(matches),
             changes |-> ChangesArray(matches, NewTargetClass, NewFunction)]
    IN
    IF NothingToRedirect(matches)
    THEN Outcome([message |-> "No matching function calls found to redirect"] @@ ResultJson,
                 bp, fs, <<>>)
    ELSE IF bDryRun
    THEN Outcome([message |-> "Dry run: Found " \o ToString(Len(matches))
                                \o " function calls to redirect"] @@ ResultJson,
                 bp, fs, <<>>)
    ELSE
    LET w == IF bBackup
             THEN WriteJsonToTempFile(fs, RedirectBackupFileName(t),
                      RedirectBackupJson(t, matches, NewTargetClass, NewFunction), saveOk)
             ELSE [path |-> "", files |-> fs, effects |-> <<>>]
        WithBackup == IF bBackup THEN [backup_path |-> w.path] @@ ResultJson
                      ELSE ResultJson
        RedirectedCount == Len(matches)
    IN
    Outcome([nodes_redirected |-> RedirectedCount,
             message |-> "Successfully redirected " \o ToString(RedirectedCount)
                            \o " function calls",
             requires_compile |-> TRUE] @@ WithBackup,
            MarkBlueprintAsModified(ApplyRedirects(bp, matches, NewFunction)),
            w.files,
            w.effects \o RedirectEffects(matches)
                \o <<Effect("MarkBlueprintAsModified", BlueprintName)>>)

\* FUnrealMCPBlueprintMigrationCommands::HandleRedirectFunctionCall
HandleRedirectFunctionCall(req, bp, fs, t, saveOk) ==
    LET P == req.params
        Fail(msg) == Outcome(CommonUtils_CreateErrorResponse(msg), bp, fs, <<>>)
    IN
    IF ~HasField(P, "source_blueprint")
    THEN Fail("Missing 'source_blueprint' parameter")
    ELSE IF ~HasField(P, "source_function")
    THEN Fail("Missing 'source_function' parameter")
    ELSE IF ~HasField(P, "target_class")
    THEN Fail("Missing 'target_class' parameter")
    ELSE IF ~HasField(P, "target_function")
    THEN Fail("Missing 'target_function' parameter")
    ELSE
    LET bDryRun == BoolParam(P, "dry_run", TRUE)
        bBackup == BoolParam(P, "backup", TRUE)
    IN
    IF ~HandlerLoadBlueprint(P.source_blueprint)
    THEN Fail("Source Blueprint not found: " \o P.source_blueprint)
    ELSE
    LET NewTargetClass == ResolveTargetClass(P.target_class) IN
    IF NewTargetClass = NullClass
    THEN Fail("Target class not found: " \o P.target_class)
    ELSE
    LET NewFunction == FindFunctionByName(NewTargetClass, P.target_function) IN
    IF NewFunction = NullFunction
    THEN Fail("Target function not found: " \o P.target_class \o "::" \o P.target_function)
    ELSE
    LET matches == NodesToRedirect(bp, P.source_function)
        ResultJson ==
            [source_blueprint |-> BlueprintPathName,
             dry_run |-> bDryRun,
             nodes_found |-> Len(matches),
             changes |-> ChangesArray(matches, NewTargetClass, NewFunction)]
    IN
    IF NothingToRedirect(matches)
    THEN Outcome([message |-> "No matching function calls found to redirect"] @@ ResultJson,
                 bp, fs, <<>>)
    ELSE IF bDryRun
    THEN Outcome([message |-> "Dry run: Found " \o ToString(Len(matches))
                                \o " function calls to redirect"] @@ ResultJson,
                 bp, fs, <<>>)
    ELSE
    LET w == IF bBackup
             THEN WriteJsonToTempFile(fs, RedirectBackupFileName(t),
                      RedirectBackupJson(t, matches, NewTargetClass, NewFunction), saveOk)
             ELSE [path |-> "", files |-> fs, effects |-> <<>>]
        WithBackup == IF bBackup THEN [backup_path |-> w.path] @@ ResultJson
                      ELSE ResultJson
        RedirectedCount == Len(matches)
    IN
    Outcome([nodes_redirected |-> RedirectedCount,
             message |-> "Successfully redirected " \o ToString(RedirectedCount)
                            \o " function calls",
             requires_compile |-> TRUE] @@ WithBackup,
            MarkBlueprintAsModified(ApplyRedirects(bp, matches, NewFunction)),
            w.files,
            w.effects \o RedirectEffects(matches)
                \o <<Effect("MarkBlueprintAsModified", BlueprintName)>>)

(***************************************************************************)
(* Serialization of graphs: the export serializer (the monolithic handler  *)
(* has the same code) and the smaller one of the delete command.           *)
(***************************************************************************)
\* a field set only under a condition
Opt(cond, fields) == IF cond THEN fields ELSE EmptyObject

\* the "connections" array of a pin, last link first
ConnectionsArray_Reversed(Pin_) ==
    [i \in 1..Len(Pin_.links) |->
        [node_guid |-> Pin_.links[Len(Pin_.links) + 1 - i].node_guid,
         pin_name |-> Pin_.links[Len(Pin_.links) + 1 - i].pin_name]]

\* the "connections" array of a pin, in LinkedTo order
ConnectionsArray(Pin_) ==
    [i \in 1..Len(Pin_.links) |->
        [node_guid |-> Pin_.links[i].node_guid, pin_name |-> Pin_.links[i].pin_name]]

\* FExportBlueprintGraphCommand::SerializePin
SerializePin(Pin_, bIncludeConnections) ==
    [name |-> Pin_.name, direction |-> Pin_.direction, category |-> Pin_.category,
     is_array |-> Pin_.is_array, is_reference |-> Pin_.is_reference,
     is_const |-> Pin_.is_const]
    @@ Opt(Pin_.subcategory # "", [subcategory |-> Pin_.subcategory])
    @@ Opt(Pin_.default_value # "", [default_value |-> Pin_.default_value])
    @@ Opt(Pin_.default_object # "", [default_object |-> Pin_.default_object])
    @@ Opt(Pin_.default_text # "", [default_text |-> Pin_.default_text])
    @@ Opt(bIncludeConnections /\ Len(Pin_.links) > 0,
           [connections |-> ConnectionsArray(Pin_)])

\* UEdGraphNode::GetNodeTitle: a call node shows the function it calls
GetNodeTitle(node) ==
    IF IsCallFunction(node) /\ GetTargetFunction(node) # NullFunction
    THEN GetTargetFunction(node).name
    ELSE node.title

\* the kind-specific fields of SerializeNode: the first cast that succeeds
NodeTypeFields(node) ==
    IF IsCallFunction(node)
    THEN [node_type |-> "CallFunction", is_pure |-> node.is_pure]
         @@ Opt(GetTargetFunction(node) # NullFunction,
                [function_name |-> GetTargetFunction(node).name])
         @@ Opt(GetTargetFunction(node) # NullFunction
                    /\ GetTargetFunction(node).cls # NullClass,
                [function_class |-> GetTargetFunction(node).cls,
                 function_class_path |-> ClassPath[GetTargetFunction(node).cls]])
    ELSE IF node.class = "K2Node_Event"
    THEN [node_type |-> "Event", event_name |-> node.member]
         @@ Opt(node.member_class # NullClass, [event_class |-> node.member_class])
    ELSE IF node.class = "K2Node_VariableGet"
    THEN [node_type |-> "VariableGet", variable_name |-> node.member]
    ELSE IF node.class = "K2Node_VariableSet"
    THEN [node_type |-> "VariableSet", variable_name |-> node.member]
    ELSE IF node.class = "K2Node_InputAction"
    THEN [node_type |-> "InputAction", action_name |-> node.member]
    ELSE IF node.class = "K2Node_Self" THEN [node_type |-> "Self"]
    ELSE IF node.class = "K2Node_FunctionEntry" THEN [node_type |-> "FunctionEntry"]
    ELSE IF node.class = "K2Node_FunctionResult" THEN [node_type |-> "FunctionResult"]
    ELSE IF node.class = "K2Node_MacroInstance"
    THEN [node_type |-> "MacroInstance"]
         @@ Opt(node.member # "", [macro_name |-> node.member])
    ELSE [node_type |-> "Other"]

\* pins serialized with the connections of the output side only
PinsArray_OutputLinksOnly(node, directions) ==
    LET sel == SelectSeq(node.pins, LAMBDA q : q.direction \in directions) IN
    [i \in 1..Len(sel) |-> SerializePin(sel[i], "Output" \in directions)]

\* the pins of one direction, serialized in Pins order
PinsArray(node, directions) ==
    LET sel == SelectSeq(node.pins, LAMBDA q : q.direction \in directions) IN
    [i \in 1..Len(sel) |-> SerializePin(sel[i], TRUE)]

\* FExportBlueprintGraphCommand::SerializeNode
SerializeNode(node) ==
    [guid |-> node.guid, class |-> node.class, title |-> GetNodeTitle(node),
     pos_x |-> node.pos_x, pos_y |-> node.pos_y, comment |-> node.comment,
     comment_bubble_visible |-> node.comment_bubble_visible,
     input_pins |-> PinsArray(node, {"Input"}),
     output_pins |-> PinsArray(node, {"Output"})]
    @@ NodeTypeFields(node)

\* FExportBlueprintGraphCommand::SerializeGraph
SerializeGraph(graph, bIncludeDefaults) ==
    [name |-> graph.name, class |-> graph.class, node_count |-> Len(graph.nodes),
     nodes |-> [i \in 1..Len(ValidNodes(graph)) |-> SerializeNode(ValidNodes(graph)[i])]]

\* FDeleteBlueprintFunctionCommand::SerializePin
Delete_SerializePin(Pin_, bIncludeConnections) ==
    [name |-> Pin_.name, direction |-> Pin_.direction, category |-> Pin_.category]
    @@ Opt(Pin_.subcategory # "", [subcategory |-> Pin_.subcategory])
    @@ Opt(Pin_.default_value # "", [default_value |-> Pin_.default_value])
    @@ Opt(bIncludeConnections /\ Len(Pin_.links) > 0,
           [connections |-> ConnectionsArray(Pin_)])

\* FDeleteBlueprintFunctionCommand::SerializeNode
Delete_SerializeNode(node) ==
    [guid |-> node.guid, class |-> node.class, title |-> GetNodeTitle(node),
     pos_x |-> node.pos_x, pos_y |-> node.pos_y,
     pins |-> [i \in 1..Len(node.pins) |-> Delete_SerializePin(node.pins[i], TRUE)]]

\* FDeleteBlueprintFunctionCommand::SerializeGraph
Delete_SerializeGraph(graph, bIncludeDefaults) ==
    [name |-> graph.name, class |-> graph.class, node_count |-> Len(graph.nodes),
     nodes |-> [i \in 1..Len(ValidNodes(graph)) |->
                  Delete_SerializeNode(ValidNodes(graph)[i])]]

(***************************************************************************)
(* delete_blueprint_function                                               *)
(***************************************************************************)
RECURSIVE FirstNamed(_, _, _)
\* index of the first graph of gs, from i on, whose name is Name; 0 if there is none
FirstNamed(gs, Name, i) ==
    IF i > Len(gs) THEN 0
    ELSE IF gs[i].name = Name THEN i
    ELSE FirstNamed(gs, Name, i + 1)

\* UEdGraph* null
NoGraph == [list |-> "", idx |-> 0]

\* where each graph of GetAllGraphs lives: the list of the Blueprint and its index
GraphRefs(bp) ==
    [i \in 1..Len(bp.UbergraphPages) |-> [list |-> "UbergraphPages", idx |-> i]]
    \o [i \in 1..Len(bp.FunctionGraphs) |-> [list |-> "FunctionGraphs", idx |-> i]]
    \o [i \in 1..Len(bp.MacroGraphs) |-> [list |-> "MacroGraphs", idx |-> i]]

GraphAt(bp, ref) == bp[ref.list][ref.idx]

\* a search that settles for the first function graph when no name matches
FindGraphToDelete_Lenient(bp, FunctionName) ==
    LET i == FirstNamed(GetAllGraphs(bp), FunctionName, 1) IN
    IF i > 0 THEN GraphRefs(bp)[i]
    ELSE IF Len(bp.FunctionGraphs) > 0 THEN [list |-> "FunctionGraphs", idx |-> 1]
    ELSE NoGraph

\* GraphToDelete: first match in GetAllGraphs, else first match in FunctionGraphs
FindGraphToDelete(bp, FunctionName) ==
    LET i == FirstNamed(GetAllGraphs(bp), FunctionName, 1) IN
    IF i > 0 THEN GraphRefs(bp)[i]
    ELSE LET j == FirstNamed(bp.FunctionGraphs, FunctionName, 1) IN
         IF j > 0 THEN [list |-> "FunctionGraphs", idx |-> j] ELSE NoGraph

\* a removal that takes the last graph of the list, whichever was asked for
RemoveGraph_Last(bp, ref) ==
    [bp EXCEPT ![ref.list] = SubSeq(@, 1, Len(@) - 1)]

\* a removal that takes the graph and the graphs that follow it in its list
RemoveGraph_Through(bp, ref) ==
    [bp EXCEPT ![ref.list] = SubSeq(@, 1, ref.idx - 1)]

\* a removal that leaves the graph where it is
RemoveGraph_Kept(bp, ref) == bp

\* FBlueprintEditorUtils::RemoveGraph: the graph leaves the list that holds it
RemoveGraph(bp, ref) ==
    LET gs == bp[ref.list] IN
    [bp EXCEPT ![ref.list] =
        [i \in 1..(Len(gs) - 1) |-> IF i < ref.idx THEN gs[i] ELSE gs[i + 1]]]

DeleteBackupFileName(FunctionName, t) ==
    "backup_func_" \o BlueprintName \o "_" \o FunctionName \o "_" \o Timestamp(t) \o ".json"

\* the result object of a delete, the same in both modules
DeleteResultJson(FunctionName, NodeCount, BackupPath) ==
    [success |-> TRUE,
     blueprint_path |-> BlueprintPathName,
     function_name |-> FunctionName,
     nodes_removed |-> NodeCount,
     requires_compile |-> TRUE,
     message |-> "Successfully deleted function '" \o FunctionName \o "' ("
                    \o ToString(NodeCount) \o " nodes)"]
    @@ Opt(BackupPath # "", [backup_path |-> BackupPath])

\* FDeleteBlueprintFunctionCommand::Execute
Delete_Execute(req, bp, fs, t, saveOk) ==
    LET P == req.params
        Fail(msg) == Outcome(CreateErrorResponse(msg), bp, fs, <<>>)
    IN
    IF ~req.json THEN Fail("Invalid JSON parameters")
    ELSE IF ~HasField(P, "blueprint_path")
    THEN Fail("Missing 'blueprint_path' parameter")
    ELSE IF ~HasField(P, "function_name")
    THEN Fail("Missing 'function_name' parameter")
    ELSE
    LET bBackup == BoolParam(P, "backup", TRUE) IN
    IF ~LoadBlueprint(P.blueprint_path)
    THEN Fail("Blueprint not found: " \o P.blueprint_path)
    ELSE
    LET GraphToDelete == FindGraphToDelete(bp, P.function_name) IN
    IF GraphToDelete = NoGraph
    THEN Fail("Function graph not found: " \o P.function_name)
    ELSE
    LET BackupJson ==
            [blueprint_path |-> BlueprintPathName,
             function_name |-> P.function_name,
             backup_time |-> Timestamp(t),
             graph_data |-> Delete_SerializeGraph(GraphAt(bp, GraphToDelete), TRUE)]
        w == IF bBackup
             THEN WriteJsonToTempFile(fs, DeleteBackupFileName(P.function_name, t),
                                      BackupJson, saveOk)
             ELSE [path |-> "", files |-> fs, effects |-> <<>>]
        NodeCount == Len(GraphAt(bp, GraphToDelete).nodes)
    IN
    Outcome(DeleteResultJson(P.function_name, NodeCount, w.path),
            MarkBlueprintAsModified(RemoveGraph(bp, GraphToDelete)),
            w.files,
            w.effects \o <<Effect("RemoveGraph", P.function_name),
                           Effect("MarkBlueprintAsModified", BlueprintName)>>)

\* FUnrealMCPBlueprintMigrationCommands::HandleDeleteBlueprintFunction
HandleDeleteBlueprintFunction(req, bp, fs, t, saveOk) ==
    LET P == req.params
        Fail(msg) == Outcome(CommonUtils_CreateErrorResponse(msg), bp, fs, <<>>)
    IN
    IF ~HasField(P, "blueprint_path")
    THEN Fail("Missing 'blueprint_path' parameter")
    ELSE IF ~HasField(P, "function_name")
    THEN Fail("Missing 'function_name' parameter")
    ELSE
    LET bBackup == BoolParam(P, "backup", TRUE) IN
    IF ~HandlerLoadBlueprint(P.blueprint_path)
    THEN Fail("Blueprint not found: " \o P.blueprint_path)
    ELSE
    LET GraphToDelete == FindGraphToDelete(bp, P.function_name) IN
    IF GraphToDelete = NoGraph
    THEN Fail("Function graph not found: " \o P.function_name)
    ELSE
    LET BackupJson ==
            [blueprint_path |-> BlueprintPathName,
             function_name |-> P.function_name,
             backup_time |-> Timestamp(t),
             graph_data |-> SerializeGraph(GraphAt(bp, GraphToDelete), TRUE)]
        w == IF bBackup
             THEN WriteJsonToTempFile(fs, DeleteBackupFileName(P.function_name, t),
                                      BackupJson, saveOk)
             ELSE [path |-> "", files |-> fs, effects |-> <<>>]
        NodeCount == Len(GraphAt(bp, GraphToDelete).nodes)
    IN
    Outcome(DeleteResultJson(P.function_name, NodeCount, w.path),
            MarkBlueprintAsModified(RemoveGraph(bp, GraphToDelete)),
            w.files,
            w.effects \o <<Effect("RemoveGraph", P.function_name),
                           Effect("MarkBlueprintAsModified", BlueprintName)>>)

(***************************************************************************)
(* set_blueprint_parent_class                                              *)
(***************************************************************************)
\* FAssetDiscoveryService::ResolveParentClassForBlueprint: friendly class names
ResolveParentClassForBlueprint(Name) ==
    IF Name = "Character" THEN "AHero"
    ELSE IF Name = "Actor" THEN "Actor"
    ELSE NullClass

\* the first lookup of the sequence that finds a class
FirstClass(lookups) ==
    LET hits == SelectSeq(lookups, LAMBDA c : c # NullClass) IN
    IF Len(hits) > 0 THEN hits[1] ELSE NullClass

\* the command's lookups: the discovery service, FindObject, LoadClass, "A", "U"
Command_ResolveNewParentClass(Name) ==
    FirstClass(<< ResolveParentClassForBlueprint(Name),
                  FindObject_UClass(Name),
                  LoadClass_UObject(Name),
                  FindObject_UClass("A" \o Name),
                  FindObject_UClass("U" \o Name) >>)

\* lookups that try the "U" prefix before the "A" prefix
Handler_ResolveNewParentClass_ObjectFirst(Name) ==
    FirstClass(<< FindObject_UClass(Name),
                  LoadClass_UObject(Name),
                  FindObject_UClass("U" \o Name),
                  FindObject_UClass("A" \o Name) >>)

\* the handler's lookups: FindObject, LoadClass, "A" prefix, "U" prefix
Handler_ResolveNewParentClass(Name) ==
    FirstClass(<< FindObject_UClass(Name),
                  LoadClass_UObject(Name),
                  FindObject_UClass("A" \o Name),
                  FindObject_UClass("U" \o Name) >>)

\* Blueprint->ParentClass ? GetName() : "None"
OldParentClassName(bp) == IF bp.ParentClass # NullClass THEN bp.ParentClass ELSE "None"

\* Blueprint->ParentClass ? GetPathName() : ""
OldParentClassPath(bp) ==
    IF bp.ParentClass # NullClass THEN ClassPath[bp.ParentClass] ELSE ""

ReparentBackupFileName(t) ==
    "backup_reparent_" \o BlueprintName \o "_" \o Timestamp(t) \o ".json"

\* the backup document of a reparent, composed after the parent was assigned
ReparentBackupJson_AfterMutation(bp, NewParentClass, t) ==
    [blueprint_path |-> BlueprintPathName,
     old_parent_class |-> NewParentClass,
     old_parent_class_path |-> ClassPath[NewParentClass],
     new_parent_class |-> NewParentClass,
     backup_time |-> Timestamp(t)]

\* the backup document of a reparent
ReparentBackupJson(bp, NewParentClass, t) ==
    [blueprint_path |-> BlueprintPathName,
     old_parent_class |-> OldParentClassName(bp),
     old_parent_class_path |-> OldParentClassPath(bp),
     new_parent_class |-> NewParentClass,
     backup_time |-> Timestamp(t)]

\* the result object of a reparent, the same in both modules
ReparentResultJson(bp, NewParentClass, BackupPath) ==
    [success |-> TRUE,
     blueprint_path |-> BlueprintPathName,
     old_parent_class |-> OldParentClassName(bp),
     new_parent_class |-> NewParentClass,
     new_parent_class_path |-> ClassPath[NewParentClass],
     requires_compile |-> TRUE,
     message |-> "Successfully reparented Blueprint from '" \o OldParentClassName(bp)
                    \o "' to '" \o NewParentClass \o "'"]
    @@ Opt(BackupPath # "", [backup_path |-> BackupPath])

\* the compatibility check, which only logs a warning
IncompatibleParent(bp, NewParentClass) ==
    /\ bp.ParentClass # NullClass
    /\ ~IsChildOf(NewParentClass, SuperClass[bp.ParentClass])

\* a reparent that gives up when the compatibility check fails
Reparent_IfCompatible(bp, NewParentClass) ==
    IF IncompatibleParent(bp, NewParentClass) THEN bp
    ELSE MarkBlueprintAsModified([bp EXCEPT !.ParentClass = NewParentClass])

\* Blueprint->ParentClass = NewParentClass; RefreshAllNodes; MarkBlueprintAsModified
Reparent(bp, NewParentClass) ==
    MarkBlueprintAsModified([bp EXCEPT !.ParentClass = NewParentClass])

ReparentEffects(NewParentClass) ==
    << Effect("SetParentClass", NewParentClass),
       Effect("RefreshAllNodes", BlueprintName),
       Effect("MarkBlueprintAsModified", BlueprintName) >>

\* FSetBlueprintParentClassCommand::Execute
Reparent_Execute(req, bp, fs, t, saveOk) ==
    LET P == req.params
        Fail(msg) == Outcome(CreateErrorResponse(msg), bp, fs, <<>>)
    IN
    IF ~req.json THEN Fail("Invalid JSON parameters")
    ELSE IF ~HasField(P, "blueprint_path")
    THEN Fail("Missing 'blueprint_path' parameter")
    ELSE IF ~HasField(P, "new_parent_class")
    THEN Fail("Missing 'new_parent_class' parameter")
    ELSE
    LET bBackup == BoolParam(P, "backup", TRUE) IN
    IF ~LoadBlueprint(P.blueprint_path)
    THEN Fail("Blueprint not found: " \o P.blueprint_path)
    ELSE
    LET NewParentClass == Command_ResolveNewParentClass(P.new_parent_class) IN
    IF NewParentClass = NullClass
    THEN Fail("Parent class not found: " \o P.new_parent_class)
    ELSE
    LET w == IF bBackup
             THEN WriteJsonToTempFile(fs, ReparentBackupFileName(t),
                                      ReparentBackupJson(bp, NewParentClass, t), saveOk)
             ELSE [path |-> "", files |-> fs, effects |-> <<>>]
    IN
    Outcome(ReparentResultJson(bp, NewParentClass, w.path),
            Reparent(bp, NewParentClass),
            w.files,
            w.effects \o ReparentEffects(NewParentClass))

\* FUnrealMCPBlueprintMigrationCommands::HandleSetBlueprintParentClass
HandleSetBlueprintParentClass(req, bp, fs, t, saveOk) ==
    LET P == req.params
        Fail(msg) == Outcome(CommonUtils_CreateErrorResponse(msg), bp, fs, <<>>)
    IN
    IF ~HasField(P, "blueprint_path")
    THEN Fail("Missing 'blueprint_path' parameter")
    ELSE IF ~HasField(P, "new_parent_class")
    THEN Fail("Missing 'new_parent_class' parameter")
    ELSE
    LET bBackup == BoolParam(P, "backup", TRUE) IN
    IF ~HandlerLoadBlueprint(P.blueprint_path)
    THEN Fail("Blueprint not found: " \o P.blueprint_path)
    ELSE
    LET NewParentClass == Handler_ResolveNewParentClass(P.new_parent_class) IN
    IF NewParentClass = NullClass
    THEN Fail("Parent class not found: " \o P.new_parent_class)
    ELSE
    LET w == IF bBackup
             THEN WriteJsonToTempFile(fs, ReparentBackupFileName(t),
                                      ReparentBackupJson(bp, NewParentClass, t), saveOk)
             ELSE [path |-> "", files |-> fs, effects |-> <<>>]
    IN
    Outcome(ReparentResultJson(bp, NewParentClass, w.path),
            Reparent(bp, NewParentClass),
            w.files,
            w.effects \o ReparentEffects(NewParentClass))

(***************************************************************************)
(* Strings: FString::StartsWith and FString::Contains over the strings the *)
(* host hands out, decided by the pieces those strings are made of.        *)
(***************************************************************************)
StringPieces ==
    {"", "Engine", "Game", "Game.OldClass", "Game.NewClass", "Game.LateClass",
     "Engine.Actor", ".Actor", "Game.AHero", "Game.UHeroComponent",
     "BasicShapes/Cube", "HeroComponent::Activate",
     "Do", "Work", "Event", "Graph", "DoWork", "Helper", "MyMacro", "EventGraph"}

StartsWith(s, prefix) == \E rest \in StringPieces : s = prefix \o rest

Contains(s, sub) == \E a \in StringPieces, b \in StringPieces : s = a \o sub \o b

(***************************************************************************)
(* export_blueprint_graph                                                  *)
(***************************************************************************)
\* Blueprint->SimpleConstructionScript->GetAllNodes(), with a component template
Components ==
    << [name |-> "Root", class |-> "SceneComponent", parent |-> ""],
       [name |-> "Mesh", class |-> "StaticMeshComponent", parent |-> "Root"] >>

\* Blueprint->NewVariables
NewVariables ==
    << [name |-> "Health", type |-> "real", subtype |-> "", is_exposed |-> TRUE],
       [name |-> "Target", type |-> "object", subtype |-> "Actor", is_exposed |-> FALSE] >>

\* the graphs an export keeps: all of them, or those whose name contains graph_name
ExportedGraphs(bp, GraphName) ==
    SelectSeq(GetAllGraphs(bp),
              LAMBDA g : GraphName = "" \/ Contains(g.name, GraphName))

RECURSIVE TotalNodes(_)
TotalNodes(gs) == IF gs = <<>> THEN 0 ELSE Len(Head(gs).nodes) + TotalNodes(Tail(gs))

\* a document that carries the time of its export
ExportJson_Stamped(bp, GraphName, bIncludeComponents, bIncludeDefaults) ==
    [blueprint_name |-> BlueprintName,
     blueprint_path |-> BlueprintPathName,
     export_time |-> Timestamp(now),
     graphs |-> [i \in 1..Len(ExportedGraphs(bp, GraphName)) |->
                   SerializeGraph(ExportedGraphs(bp, GraphName)[i], bIncludeDefaults)]]

\* ExportJson: the document an export writes
ExportJson(bp, GraphName, bIncludeComponents, bIncludeDefaults) ==
    LET gs == ExportedGraphs(bp, GraphName) IN
    [blueprint_name |-> BlueprintName,
     blueprint_path |-> BlueprintPathName,
     graphs |-> [i \in 1..Len(gs) |-> SerializeGraph(gs[i], bIncludeDefaults)],
     variables |-> [i \in 1..Len(NewVariables) |->
                      [name |-> NewVariables[i].name, type |-> NewVariables[i].type,
                       is_exposed |-> NewVariables[i].is_exposed]
                      @@ Opt(NewVariables[i].subtype # "",
                             [subtype |-> NewVariables[i].subtype])]]
    @@ Opt(bp.ParentClass # NullClass,
           [parent_class |-> bp.ParentClass,
            parent_class_path |-> IF bp.ParentClass # NullClass
                                  THEN ClassPath[bp.ParentClass] ELSE ""])
    @@ Opt(bIncludeComponents,
           [components |-> [i \in 1..Len(Components) |->
                              [name |-> Components[i].name, class |-> Components[i].class]
                              @@ Opt(Components[i].parent # "",
                                     [parent |-> Components[i].parent])]])

\* GenerateExportFileName
GenerateExportFileName(t) == "export_" \o BlueprintName \o "_" \o Timestamp(t) \o ".json"

\* FExportBlueprintGraphCommand::CreateSuccessResponse
CreateSuccessResponse(FilePath, GraphCount, NodeCount) ==
    [success |-> TRUE, file_path |-> FilePath,
     graph_count |-> GraphCount, node_count |-> NodeCount]

\* a string parameter left empty when the request does not carry it
StringParam(Params, f) == IF HasField(Params, f) THEN Params[f] ELSE ""

\* FExportBlueprintGraphCommand::Execute
Export_Execute(req, bp, fs, t, saveOk) ==
    LET P == req.params
        Fail(msg) == Outcome(CreateErrorResponse(msg), bp, fs, <<>>)
    IN
    IF ~req.json THEN Fail("Invalid JSON parameters")
    ELSE IF ~HasField(P, "blueprint_path")
    THEN Fail("Missing 'blueprint_path' parameter")
    ELSE IF ~LoadBlueprint(P.blueprint_path)
    THEN Fail("Blueprint not found: " \o P.blueprint_path)
    ELSE
    LET GraphName == StringParam(P, "graph_name")
        gs == ExportedGraphs(bp, GraphName)
        w == WriteJsonToTempFile(fs, GenerateExportFileName(t),
                 ExportJson(bp, GraphName, BoolParam(P, "include_components", TRUE),
                            BoolParam(P, "include_defaults", FALSE)),
                 saveOk)
    IN
    IF w.path = ""
    THEN Outcome(CreateErrorResponse("Failed to write export file"), bp, fs, w.effects)
    ELSE Outcome(CreateSuccessResponse(w.path, Len(gs), TotalNodes(gs)),
                 bp, w.files, w.effects)

\* FUnrealMCPBlueprintMigrationCommands::HandleExportBlueprintGraph
HandleExportBlueprintGraph(req, bp, fs, t, saveOk) ==
    LET P == req.params
        Fail(msg) == Outcome(CommonUtils_CreateErrorResponse(msg), bp, fs, <<>>)
    IN
    IF ~HasField(P, "blueprint_path")
    THEN Fail("Missing 'blueprint_path' parameter")
    ELSE IF ~HandlerLoadBlueprint(P.blueprint_path)
    THEN Fail("Blueprint not found: " \o P.blueprint_path)
    ELSE
    LET GraphName == StringParam(P, "graph_name")
        gs == ExportedGraphs(bp, GraphName)
        w == WriteJsonToTempFile(fs, GenerateExportFileName(t),
                 ExportJson(bp, GraphName, BoolParam(P, "include_components", TRUE),
                            BoolParam(P, "include_defaults", FALSE)),
                 saveOk)
    IN
    IF w.path = ""
    THEN Outcome(CommonUtils_CreateErrorResponse("Failed to write export file"),
                 bp, fs, w.effects)
    ELSE Outcome([success |-> TRUE, file_path |-> w.path,
                  graph_count |-> Len(gs), node_count |-> TotalNodes(gs)],
                 bp, w.files, w.effects)

(***************************************************************************)
(* get_blueprint_dependencies                                              *)
(***************************************************************************)
\* IAssetRegistry::GetDependencies for the Blueprint's package, in index order
GetDependencies ==
    << "/Script/Engine", "/Game/Blueprints/BP_Base", "/Game/Meshes/SM_Rock",
       "/Script/Game", "/Engine/BasicShapes/Cube", "/Game/Meshes/SM_Rock",
       "/Game/Unknown" >>

\* IAssetRegistry::GetAssetByObjectPath(..).AssetClassPath, "" when not valid
AssetClassName(DepPath) ==
    IF DepPath = "/Game/Blueprints/BP_Base" THEN "Blueprint"
    ELSE IF DepPath = "/Game/Meshes/SM_Rock" THEN "StaticMesh"
    ELSE ""

IsEnginePath(Path) == StartsWith(Path, "/Script/") \/ StartsWith(Path, "/Engine/")

\* a set that keeps every element it is given
AddUnique_Keep(s) == s

RECURSIVE AddUnique(_)
\* TSet<FString>::Add over a sequence: first occurrences, in order
AddUnique(s) ==
    IF s = <<>> THEN <<>>
    ELSE LET front == AddUnique(SubSeq(s, 1, Len(s) - 1)) IN
         IF s[Len(s)] \in Range(front) THEN front ELSE Append(front, s[Len(s)])

\* the dependencies that pass the engine filter
KeptDependencies(bIncludeEngineClasses) ==
    SelectSeq(GetDependencies, LAMBDA d : bIncludeEngineClasses \/ ~IsEnginePath(d))

NativeClasses(bInc) ==
    AddUnique(SelectSeq(KeptDependencies(bInc), LAMBDA d : StartsWith(d, "/Script/")))

BlueprintDependencies(bInc) ==
    AddUnique(SelectSeq(KeptDependencies(bInc),
        LAMBDA d : ~StartsWith(d, "/Script/") /\ AssetClassName(d) = "Blueprint"))

AssetDependencies(bInc) ==
    AddUnique(SelectSeq(KeptDependencies(bInc),
        LAMBDA d : ~StartsWith(d, "/Script/") /\ AssetClassName(d) # "Blueprint"))

\* "%s::%s" of the owner class name and the function name
FunctionKey(Function) == OwnerClassName(Function) \o "::" \o Function.name

\* whether a call of Function is counted
CountsCall(Function, bIncludeEngineClasses) ==
    \/ bIncludeEngineClasses
    \/ ~StartsWith(FunctionKey(Function), "U")
    \/ Function.cls = NullClass
    \/ ~StartsWith(ClassPath[Function.cls], "/Script/Engine")

\* the counted calls of the Blueprint, in graph and node order
CountedCalls(bp, bInc) ==
    LET AllGraphs == GetAllGraphs(bp)
        calls(g) == SelectSeq(g.nodes,
                        LAMBDA n : /\ IsCallFunction(n)
                                   /\ GetTargetFunction(n) # NullFunction
                                   /\ CountsCall(GetTargetFunction(n), bInc))
        all == Flatten([g \in 1..Len(AllGraphs) |-> calls(AllGraphs[g])])
    IN  [i \in 1..Len(all) |-> FunctionKey(GetTargetFunction(all[i]))]

\* TMap<FString, int32> FunctionCalls as the "function_calls" array
FunctionCallsArray(bp, bInc) ==
    LET keys == CountedCalls(bp, bInc)
        uniq == AddUnique(keys)
    IN  [i \in 1..Len(uniq) |->
            [function |-> uniq[i],
             call_count |-> Cardinality({k \in 1..Len(keys) : keys[k] = uniq[i]})]]

\* the result fields both modules build
DependenciesResultJson(bp, bInc) ==
    [blueprint_path |-> BlueprintPathName,
     assets |-> AssetDependencies(bInc),
     blueprints |-> BlueprintDependencies(bInc),
     native_classes |-> NativeClasses(bInc),
     function_calls |-> FunctionCallsArray(bp, bInc)]

\* FGetBlueprintDependenciesCommand::Execute
Dependencies_Execute(req, bp, fs, t, saveOk) ==
    LET P == req.params
        Fail(msg) == Outcome(CreateErrorResponse(msg), bp, fs, <<>>)
    IN
    IF ~req.json THEN Fail("Invalid JSON parameters")
    ELSE IF ~HasField(P, "blueprint_path")
    THEN Fail("Missing 'blueprint_path' parameter")
    ELSE IF ~LoadBlueprint(P.blueprint_path)
    THEN Fail("Blueprint not found: " \o P.blueprint_path)
    ELSE Outcome([success |-> TRUE]
                 @@ DependenciesResultJson(bp, BoolParam(P, "include_engine_classes", FALSE)),
                 bp, fs, <<>>)

\* FUnrealMCPBlueprintMigrationCommands::HandleGetBlueprintDependencies
HandleGetBlueprintDependencies(req, bp, fs, t, saveOk) ==
    LET P == req.params
        Fail(msg) == Outcome(CommonUtils_CreateErrorResponse(msg), bp, fs, <<>>)
    IN
    IF ~HasField(P, "blueprint_path")
    THEN Fail("Missing 'blueprint_path' parameter")
    ELSE IF ~HandlerLoadBlueprint(P.blueprint_path)
    THEN Fail("Blueprint not found: " \o P.blueprint_path)
    ELSE Outcome(DependenciesResultJson(bp, BoolParam(P, "include_engine_classes", FALSE)),
                 bp, fs, <<>>)

(***************************************************************************)
(* find_blueprint_references                                               *)
(***************************************************************************)
\* IAssetRegistry::GetReferencers(TargetId), in index order
GetReferencers(TargetId) ==
    IF TargetId = BlueprintPackage
    THEN << "/Script/Game", "/Game/Maps/Level1", BlueprintPackage, "/Engine/BasicShapes/Cube" >>
    ELSE IF TargetId = "/Game/Blueprints/BP_Gone"
    THEN << "/Game/Maps/Level1" >>
    ELSE <<>>

\* the call nodes of the referencer that call TargetFunction, as locations
LocationsArray(bp, TargetFunction) ==
    LET matches == NodesToRedirect(bp, TargetFunction) IN
    [i \in 1..Len(matches) |->
        [graph |-> matches[i].graph,
         node_guid |-> matches[i].node.guid,
         node_title |-> GetNodeTitle(matches[i].node),
         pos_x |-> matches[i].node.pos_x,
         pos_y |-> matches[i].node.pos_y]]

\* an entry whose graphs are not scanned
RefJson_NoScan(bp, RefPath, TargetFunction) ==
    IF LoadObject_UBlueprint(RefPath)
    THEN [referencer_path |-> RefPath, referencer_name |-> BlueprintName,
          type |-> "Blueprint"]
         @@ Opt(TargetFunction # "", [reference_locations |-> <<>>])
    ELSE [referencer_path |-> RefPath, type |-> "Asset"]

\* one entry of ReferencersArray
RefJson(bp, RefPath, TargetFunction) ==
    IF LoadObject_UBlueprint(RefPath)
    THEN [referencer_path |-> RefPath, referencer_name |-> BlueprintName,
          type |-> "Blueprint"]
         @@ Opt(TargetFunction # "",
                [reference_locations |-> LocationsArray(bp, TargetFunction)])
    ELSE [referencer_path |-> RefPath, type |-> "Asset"]

\* the query always made with the package of the loaded Blueprint
ReferencesResultJson_PackageOnly(bp, TargetPath, TargetFunction, loaded) ==
    LET refs == SelectSeq(GetReferencers(BlueprintPackage), LAMBDA r : ~IsEnginePath(r))
        ReferencersArray == [i \in 1..Len(refs) |-> RefJson(bp, refs[i], TargetFunction)]
    IN  [target_path |-> TargetPath,
         referencer_count |-> Len(ReferencersArray),
         referencers |-> ReferencersArray]
        @@ Opt(TargetFunction # "", [target_function |-> TargetFunction])

\* the result fields both modules build; loaded: whether target_path loads
ReferencesResultJson(bp, TargetPath, TargetFunction, loaded) ==
    LET TargetId == IF loaded THEN BlueprintPackage ELSE TargetPath
        refs == SelectSeq(GetReferencers(TargetId), LAMBDA r : ~IsEnginePath(r))
        ReferencersArray == [i \in 1..Len(refs) |-> RefJson(bp, refs[i], TargetFunction)]
    IN  [target_path |-> TargetPath,
         referencer_count |-> Len(ReferencersArray),
         referencers |-> ReferencersArray]
        @@ Opt(TargetFunction # "", [target_function |-> TargetFunction])

\* FFindBlueprintReferencesCommand::Execute
References_Execute(req, bp, fs, t, saveOk) ==
    LET P == req.params
        Fail(msg) == Outcome(CreateErrorResponse(msg), bp, fs, <<>>)
    IN
    IF ~req.json THEN Fail("Invalid JSON parameters")
    ELSE IF ~HasField(P, "target_path")
    THEN Fail("Missing 'target_path' parameter")
    ELSE Outcome([success |-> TRUE]
                 @@ ReferencesResultJson(bp, P.target_path, StringParam(P, "target_function"),
                                         LoadBlueprint(P.target_path)),
                 bp, fs, <<>>)

\* FUnrealMCPBlueprintMigrationCommands::HandleFindBlueprintReferences
HandleFindBlueprintReferences(req, bp, fs, t, saveOk) ==
    LET P == req.params
        Fail(msg) == Outcome(CommonUtils_CreateErrorResponse(msg), bp, fs, <<>>)
    IN
    IF ~HasField(P, "target_path")
    THEN Fail("Missing 'target_path' parameter")
    ELSE Outcome(ReferencesResultJson(bp, P.target_path, StringParam(P, "target_function"),
                                      HandlerLoadBlueprint(P.target_path)),
                 bp, fs, <<>>)

(***************************************************************************)
(* get_blueprint_functions                                                 *)
(***************************************************************************)
\* is_override: the graph has an entry node and the parent class has the function
IsOverride(bp, graph) ==
    /\ \E i \in 1..Len(graph.nodes) : graph.nodes[i].class = "K2Node_FunctionEntry"
    /\ bp.ParentClass # NullClass
    /\ FindFunctionByName(bp.ParentClass, graph.name) # NullFunction

FunctionEntries(bp) ==
    [i \in 1..Len(bp.FunctionGraphs) |->
        [name |-> bp.FunctionGraphs[i].name,
         graph_name |-> bp.FunctionGraphs[i].name,
         node_count |-> Len(bp.FunctionGraphs[i].nodes),
         is_event |-> FALSE, type |-> "Function",
         is_override |-> IsOverride(bp, bp.FunctionGraphs[i])]]

\* the entries of one event-graph page: its event nodes, then the page itself
PageEntries(graph) ==
    LET events == SelectSeq(graph.nodes, LAMBDA n : n.class = "K2Node_Event") IN
    [i \in 1..Len(events) |->
        [name |-> events[i].member, graph_name |-> graph.name,
         node_count |-> Len(graph.nodes), is_event |-> TRUE, type |-> "Event"]
        @@ Opt(events[i].member_class # NullClass,
               [event_class |-> events[i].member_class])]
    \o << [name |-> graph.name, graph_name |-> graph.name,
           node_count |-> Len(graph.nodes), is_event |-> FALSE,
           type |-> "EventGraph"] >>

MacroEntries(bp) ==
    [i \in 1..Len(bp.MacroGraphs) |->
        [name |-> bp.MacroGraphs[i].name,
         graph_name |-> bp.MacroGraphs[i].name,
         node_count |-> Len(bp.MacroGraphs[i].nodes),
         is_event |-> FALSE, type |-> "Macro"]]

\* FunctionsArray
FunctionsArray(bp) ==
    FunctionEntries(bp)
    \o Flatten([i \in 1..Len(bp.UbergraphPages) |-> PageEntries(bp.UbergraphPages[i])])
    \o MacroEntries(bp)

\* the result object, the same in both modules
FunctionsResultJson(bp) ==
    [success |-> TRUE,
     blueprint_path |-> BlueprintPathName,
     blueprint_name |-> BlueprintName,
     function_count |-> Len(FunctionsArray(bp)),
     functions |-> FunctionsArray(bp)]
    @@ Opt(bp.ParentClass # NullClass,
           [parent_class |-> IF bp.ParentClass # NullClass THEN bp.ParentClass ELSE ""])

\* FGetBlueprintFunctionsCommand::Execute
Functions_Execute(req, bp, fs, t, saveOk) ==
    LET P == req.params
        Fail(msg) == Outcome(CreateErrorResponse(msg), bp, fs, <<>>)
    IN
    IF ~req.json THEN Fail("Invalid JSON parameters")
    ELSE IF ~HasField(P, "blueprint_path")
    THEN Fail("Missing 'blueprint_path' parameter")
    ELSE IF ~LoadBlueprint(P.blueprint_path)
    THEN Fail("Blueprint not found: " \o P.blueprint_path)
    ELSE Outcome(FunctionsResultJson(bp), bp, fs, <<>>)

\* FUnrealMCPBlueprintMigrationCommands::HandleGetBlueprintFunctions
HandleGetBlueprintFunctions(req, bp, fs, t, saveOk) ==
    LET P == req.params
        Fail(msg) == Outcome(CommonUtils_CreateErrorResponse(msg), bp, fs, <<>>)
    IN
    IF ~HasField(P, "blueprint_path")
    THEN Fail("Missing 'blueprint_path' parameter")
    ELSE IF ~HandlerLoadBlueprint(P.blueprint_path)
    THEN Fail("Blueprint not found: " \o P.blueprint_path)
    ELSE Outcome(FunctionsResultJson(bp), bp, fs, <<>>)

(***************************************************************************)
(* The requests the clients send.                                          *)
(***************************************************************************)
\* a request object without one of its fields
Drop(r, f) == [g \in DOMAIN r \ {f} |-> r[g]]

SourceFunctions == {"OldFunc", "NewFunc"}
Targets == {<<"NewClass", "NewFunc">>, <<"NewClass", "OldFunc">>}
NoTargets == {<<"NoSuchClass", "NewFunc">>, <<"NewClass", "NoSuchFunc">>}

RedirectBase ==
    [source_blueprint |-> BlueprintPathName, source_function |-> "OldFunc",
     target_class |-> "NewClass", target_function |-> "NewFunc",
     dry_run |-> FALSE, backup |-> TRUE]

\* dry_run and backup as the clients combine them
RedirectModes == {<<TRUE, TRUE>>, <<FALSE, TRUE>>, <<FALSE, FALSE>>}

RedirectParams ==
    { [RedirectBase EXCEPT !.source_function = sf, !.target_class = t[1],
                           !.target_function = t[2], !.dry_run = m[1], !.backup = m[2]] :
        sf \in SourceFunctions, t \in Targets, m \in RedirectModes }
    \cup { [RedirectBase EXCEPT !.source_function = "Other"] }
    \cup { [RedirectBase EXCEPT !.target_class = t[1], !.target_function = t[2],
                                !.dry_run = d] : t \in NoTargets, d \in BOOLEAN }
    \cup { [RedirectBase EXCEPT !.source_function = "NewFunc",
                                !.target_class = "NoSuchClass", !.dry_run = d] :
             d \in BOOLEAN }
    \cup { [RedirectBase EXCEPT !.source_blueprint = sb] :
             sb \in {BlueprintName, "BP_Missing"} }
    \cup { [RedirectBase EXCEPT !.target_class = "/Script/Game.LateClass"] }
    \cup { [RedirectBase EXCEPT ![f] = ""] : f \in {"source_blueprint", "source_function"} }
    \cup { Drop(RedirectBase, f) : f \in DOMAIN RedirectBase }

DeleteBase ==
    [blueprint_path |-> BlueprintPathName, function_name |-> "DoWork", backup |-> TRUE]

DeleteParams ==
    { [DeleteBase EXCEPT !.function_name = fn, !.backup = b] :
        fn \in {"DoWork", "NoSuchGraph"}, b \in BOOLEAN }
    \cup { [DeleteBase EXCEPT !.function_name = fn] : fn \in {"Helper", "EventGraph"} }
    \cup { [DeleteBase EXCEPT !.blueprint_path = sb] : sb \in {BlueprintName, "BP_Missing"} }
    \cup { [DeleteBase EXCEPT ![f] = ""] : f \in {"blueprint_path", "function_name"} }
    \cup { Drop(DeleteBase, f) : f \in DOMAIN DeleteBase }

ReparentBase ==
    [blueprint_path |-> BlueprintPathName, new_parent_class |-> "Actor", backup |-> TRUE]

ReparentParams ==
    { [ReparentBase EXCEPT !.new_parent_class = pc, !.backup = b] :
        pc \in {"Actor", "NoSuchParent"}, b \in BOOLEAN }
    \cup { [ReparentBase EXCEPT !.new_parent_class = pc] :
             pc \in {"Hero", "Character", "HeroComponent", "/Script/Game.LateClass"} }
    \cup { [ReparentBase EXCEPT !.blueprint_path = sb] : sb \in {BlueprintName, "BP_Missing"} }
    \cup { [ReparentBase EXCEPT !.new_parent_class = ""] }
    \cup { Drop(ReparentBase, f) : f \in DOMAIN ReparentBase }

ExportParams ==
    { [blueprint_path |-> sb] : sb \in {BlueprintPathName, BlueprintName, "BP_Missing", ""} }
    \cup { [blueprint_path |-> BlueprintPathName, graph_name |-> "Work"],
           [blueprint_path |-> BlueprintPathName, include_defaults |-> TRUE],
           [blueprint_path |-> BlueprintPathName, include_components |-> FALSE],
           EmptyObject }

DependenciesParams ==
    { [blueprint_path |-> sb] : sb \in {BlueprintPathName, BlueprintName, "BP_Missing", ""} }
    \cup { [blueprint_path |-> BlueprintPathName, include_engine_classes |-> TRUE],
           EmptyObject }

ReferencesParams ==
    { [target_path |-> tp] :
        tp \in {BlueprintPathName, BlueprintName, "/Game/Blueprints/BP_Gone", ""} }
    \cup { [target_path |-> BlueprintPathName, target_function |-> tf] :
             tf \in {"OldFunc", "NewFunc", ""} }
    \cup { EmptyObject }

FunctionsParams ==
    { [blueprint_path |-> sb] : sb \in {BlueprintPathName, BlueprintName, "BP_Missing", ""} }
    \cup { EmptyObject }

\* the disk's answers to a request: a refused write shows only where the
\* request asks for a file
AsksBackup(req) == BoolParam(req.params, "backup", TRUE)

WritesBackup(req) == AsksBackup(req) /\ ~BoolParam(req.params, "dry_run", TRUE)

DiskAnswers(req, writes) == IF req.json /\ writes THEN BOOLEAN ELSE {TRUE}

\* a request to a command class: the Parameters string parses, or it does not
CommandRequests(command, Params) ==
    { [module |-> "command", command |-> command, json |-> TRUE, params |-> p] :
        p \in Params }
    \cup { [module |-> "command", command |-> command, json |-> FALSE,
            params |-> EmptyObject] }

\* a request to the monolithic handler: it receives the parsed object
HandlerRequests(command, Params) ==
    { [module |-> "handler", command |-> command, json |-> TRUE, params |-> p] :
        p \in Params }

NoRequest == [module |-> "", command |-> "", json |-> TRUE, params |-> EmptyObject]

(***************************************************************************)
(* The state machine.                                                      *)
(***************************************************************************)
Blueprint0(ParentClass) ==
    [ParentClass |-> ParentClass,
     UbergraphPages |-> <<EventGraph0>>,
     FunctionGraphs |-> <<DoWork0, Helper0>>,
     MacroGraphs |-> <<Macro0>>,
     modified |-> FALSE]

Init ==
    /\ blueprint \in {Blueprint0(pc) : pc \in {"OldClass", NullClass}}
    /\ files = EmptyObject
    /\ now = 0
    /\ request = NoRequest
    /\ response = EmptyObject
    /\ effects = <<>>
    /\ served = 0
    /\ RegisteredCommandNames = <<>>
    /\ Commands = {}

(***************************************************************************)
(* Command registration: FMigrationCommandRegistration keeps the names it  *)
(* registered in the static array RegisteredCommandNames; the registry     *)
(* itself, FUnrealMCPCommandRegistry, holds one command per name.          *)
(***************************************************************************)

\* FUnrealMCPCommandRegistry::RegisterCommand: a name already registered is
\* rejected and the registry is left as it was
Registry_RegisterCommand(reg, CommandName) ==
    IF CommandName \in reg
    THEN [ok |-> FALSE, reg |-> reg]
    ELSE [ok |-> TRUE, reg |-> reg \cup {CommandName}]

\* FUnrealMCPCommandRegistry::UnregisterCommand: the name is registered no more
Registry_UnregisterCommand(reg, CommandName) == reg \ {CommandName}

\* RegisterAndTrackCommand: the name is tracked only when the registry took it
RegisterAndTrackCommand(st, CommandName) ==
    IF CommandName = ""
    THEN st
    ELSE LET r == Registry_RegisterCommand(st.reg, CommandName)
         IN  IF r.ok
             THEN [names |-> Append(st.names, CommandName), reg |-> r.reg]
             ELSE [names |-> st.names, reg |-> r.reg]

\* the loop of UnregisterAllMigrationCommands over the tracked names
RECURSIVE UnregisterEach(_, _)
UnregisterEach(reg, names) ==
    IF names = <<>>
    THEN reg
    ELSE UnregisterEach(Registry_UnregisterCommand(reg, Head(names)), Tail(names))

\* RegisterAllMigrationCommands: the tracked list is emptied, then the seven
\* commands are registered one after the other
RegisterAllMigrationCommands ==
    LET s0 == [names |-> <<>>, reg |-> Commands]
        s1 == RegisterAndTrackCommand(s0, "export_blueprint_graph")
        s2 == RegisterAndTrackCommand(s1, "get_blueprint_dependencies")
        s3 == RegisterAndTrackCommand(s2, "find_blueprint_references")
        s4 == RegisterAndTrackCommand(s3, "redirect_function_call")
        s5 == RegisterAndTrackCommand(s4, "delete_blueprint_function")
        s6 == RegisterAndTrackCommand(s5, "set_blueprint_parent_class")
        s7 == RegisterAndTrackCommand(s6, "get_blueprint_functions")
    IN  /\ RegisteredCommandNames' = s7.names
        /\ Commands' = s7.reg
        /\ UNCHANGED <<blueprint, files, now, request, response, effects, served>>

\* UnregisterAllMigrationCommands: every tracked name is unregistered, then the
\* tracked list is emptied
UnregisterAllMigrationCommands ==
    /\ Commands' = UnregisterEach(Commands, RegisteredCommandNames)
    /\ RegisteredCommandNames' = <<>>
    /\ UNCHANGED <<blueprint, files, now, request, response, effects, served>>

\* a handler answers req and leaves out behind
Serve(req, out) ==
    /\ served < MaxRequests
    /\ served' = served + 1
    /\ request' = req
    /\ response' = out.response
    /\ blueprint' = out.blueprint
    /\ files' = out.files
    /\ effects' = out.effects
    /\ UNCHANGED <<now, RegisteredCommandNames, Commands>>

\* the wall clock reaches the next second
Tick ==
    /\ now < MaxClock
    /\ now' = now + 1
    /\ UNCHANGED <<blueprint, files, request, response, effects, served,
                   RegisteredCommandNames, Commands>>

ExecuteRedirect ==
    \E req \in CommandRequests("redirect_function_call", RedirectParams) :
      \E saveOk \in DiskAnswers(req, WritesBackup(req)) :
        Serve(req, Redirect_Execute(req, blueprint, files, now, saveOk))

ExecuteDelete ==
    \E req \in CommandRequests("delete_blueprint_function", DeleteParams) :
      \E saveOk \in DiskAnswers(req, AsksBackup(req)) :
        Serve(req, Delete_Execute(req, blueprint, files, now, saveOk))

ExecuteReparent ==
    \E req \in CommandRequests("set_blueprint_parent_class", ReparentParams) :
      \E saveOk \in DiskAnswers(req, AsksBackup(req)) :
        Serve(req, Reparent_Execute(req, blueprint, files, now, saveOk))

ExecuteExport ==
    \E req \in CommandRequests("export_blueprint_graph", ExportParams) :
      \E saveOk \in DiskAnswers(req, TRUE) :
        Serve(req, Export_Execute(req, blueprint, files, now, saveOk))

ExecuteDependencies ==
    \E req \in CommandRequests("get_blueprint_dependencies", DependenciesParams) :
        Serve(req, Dependencies_Execute(req, blueprint, files, now, TRUE))

ExecuteReferences ==
    \E req \in CommandRequests("find_blueprint_references", ReferencesParams) :
        Serve(req, References_Execute(req, blueprint, files, now, TRUE))

ExecuteFunctions ==
    \E req \in CommandRequests("get_blueprint_functions", FunctionsParams) :
        Serve(req, Functions_Execute(req, blueprint, files, now, TRUE))

HandleRedirect ==
    \E req \in HandlerRequests("redirect_function_call", RedirectParams) :
      \E saveOk \in DiskAnswers(req, WritesBackup(req)) :
        Serve(req, HandleRedirectFunctionCall(req, blueprint, files, now, saveOk))

HandleDelete ==
    \E req \in HandlerRequests("delete_blueprint_function", DeleteParams) :
      \E saveOk \in DiskAnswers(req, AsksBackup(req)) :
        Serve(req, HandleDeleteBlueprintFunction(req, blueprint, files, now, saveOk))

HandleReparent ==
    \E req \in HandlerRequests("set_blueprint_parent_class", ReparentParams) :
      \E saveOk \in DiskAnswers(req, AsksBackup(req)) :
        Serve(req, HandleSetBlueprintParentClass(req, blueprint, files, now, saveOk))

HandleExport ==
    \E req \in HandlerRequests("export_blueprint_graph", ExportParams) :
      \E saveOk \in DiskAnswers(req, TRUE) :
        Serve(req, HandleExportBlueprintGraph(req, blueprint, files, now, saveOk))

HandleDependencies ==
    \E req \in HandlerRequests("get_blueprint_dependencies", DependenciesParams) :
        Serve(req, HandleGetBlueprintDependencies(req, blueprint, files, now, TRUE))

HandleReferences ==
    \E req \in HandlerRequests("find_blueprint_references", ReferencesParams) :
        Serve(req, HandleFindBlueprintReferences(req, blueprint, files, now, TRUE))

HandleFunctions ==
    \E req \in HandlerRequests("get_blueprint_functions", FunctionsParams) :
        Serve(req, HandleGetBlueprintFunctions(req, blueprint, files, now, TRUE))

\* HandleCommand with a command type it does not know
HandleUnknown ==
    \E req \in HandlerRequests("compile_blueprint", {EmptyObject}) :
        Serve(req, Outcome(CommonUtils_CreateErrorResponse(
                               "Unknown migration command: " \o req.command),
                           blueprint, files, <<>>))

Next ==
    \/ Tick
    \/ ExecuteRedirect
    \/ ExecuteDelete
    \/ ExecuteReparent
    \/ ExecuteExport
    \/ ExecuteDependencies
    \/ ExecuteReferences
    \/ ExecuteFunctions
    \/ HandleRedirect
    \/ HandleDelete
    \/ HandleReparent
    \/ HandleExport
    \/ HandleDependencies
    \/ HandleReferences
    \/ HandleFunctions
    \/ HandleUnknown
    \/ RegisterAllMigrationCommands
    \/ UnregisterAllMigrationCommands

Spec == Init /\ [][Next]_vars

\* the clients send redirect_function_call requests only
NextRedirect ==
    \/ Tick
    \/ ExecuteRedirect
    \/ HandleRedirect

SpecRedirect == Init /\ [][NextRedirect]_vars

\* the clients send requests of the three mutation operations only
NextMutate ==
    \/ Tick
    \/ ExecuteRedirect
    \/ ExecuteDelete
    \/ ExecuteReparent
    \/ HandleRedirect
    \/ HandleDelete
    \/ HandleReparent

SpecMutate == Init /\ [][NextMutate]_vars

\* the clients export, and delete functions between the exports
NextExport ==
    \/ Tick
    \/ ExecuteExport
    \/ HandleExport
    \/ ExecuteDelete
    \/ HandleDelete

SpecExport == Init /\ [][NextExport]_vars

\* the clients analyse the dependencies, and redirect calls between the analyses
NextAnalyze ==
    \/ Tick
    \/ ExecuteDependencies
    \/ HandleDependencies
    \/ ExecuteRedirect
    \/ HandleRedirect

SpecAnalyze == Init /\ [][NextAnalyze]_vars

\* the clients send set_blueprint_parent_class requests only
NextReparent ==
    \/ Tick
    \/ ExecuteReparent
    \/ HandleReparent

SpecReparent == Init /\ [][NextReparent]_vars

\* the clients look for references and list functions, and redirect calls and
\* delete functions in between
NextInspect ==
    \/ Tick
    \/ ExecuteReferences
    \/ HandleReferences
    \/ ExecuteFunctions
    \/ HandleFunctions
    \/ ExecuteRedirect
    \/ ExecuteDelete

SpecInspect == Init /\ [][NextInspect]_vars

(***************************************************************************)
(* Properties.                                                             *)
(***************************************************************************)
\* this step answers a request
Answers == served' = served + 1

RedirectRequired == {"source_blueprint", "source_function", "target_class", "target_function"}

\* a redirect request that reaches the load of its subject
RedirectWellFormed(req) ==
    /\ req.command = "redirect_function_call"
    /\ req.json
    /\ RedirectRequired \subseteq DOMAIN req.params

\* the module's way to load a subject
Loads(req, Path) ==
    IF req.module = "command" THEN LoadBlueprint(Path) ELSE HandlerLoadBlueprint(Path)

\* dry_run is true, given or by default
AsksDryRun(req) == ~HasField(req.params, "dry_run") \/ req.params.dry_run

\* what a redirect response reports of its discovery
Report(resp) ==
    IF HasField(resp, "nodes_found") THEN <<resp.nodes_found, resp.changes>> ELSE <<>>

C1_DryRunStep ==
    (Answers /\ request'.command = "redirect_function_call" /\ AsksDryRun(request'))
    => /\ blueprint' = blueprint
       /\ files' = files
       /\ effects' = <<>>
       /\ (/\ request.command = request'.command
           /\ request.json = request'.json
           /\ request.params = request'.params)
          => Report(response') = Report(response)

\* C1: a redirect_function_call with dry_run=true, whatever its other
\* parameters and whatever the state of the Blueprint, leaves the Blueprint
\* (every node's call target, the modified mark) and the files as they were,
\* and a dry run that follows a dry run with the same arguments reports the
\* same nodes_found and the same changes.
C1_DryRunNeverMutates == [][C1_DryRunStep]_vars

\* a second dry run in a row has found the two calls of OldFunc once more
C1_Witness ==
    /\ served = 2
    /\ request.command = "redirect_function_call"
    /\ HasField(request.params, "dry_run") /\ request.params.dry_run
    /\ HasField(response, "nodes_found") /\ response.nodes_found = 2
    /\ ~blueprint.modified
    /\ files = EmptyObject

\* the response of a redirect that went through its apply loop
Applied(resp) == HasField(resp, "nodes_redirected")

C2_RediscoveryStep ==
    (/\ Answers
     /\ RedirectWellFormed(request) /\ Applied(response)
     /\ RedirectWellFormed(request') /\ AsksDryRun(request')
     /\ request'.params.source_function = request.params.source_function
     /\ HasField(response', "nodes_found"))
    => response'.nodes_found = 0

\* C2: after a redirect_function_call with dry_run=false has redirected the
\* calls of source_function S1 to a resolved target, the next dry run for S1
\* on the same Blueprint reports nodes_found = 0, for every S1 and every
\* resolvable target_class and target_function.
C2_RediscoveryFindsNothing == [][C2_RediscoveryStep]_vars

\* the function a redirect request names as its target, NullFunction if none
TargetOf(req) ==
    FindFunctionByName(ResolveTargetClass(req.params.target_class),
                       req.params.target_function)

\* every node of the Blueprint
AllNodes(bp) == UNION {Range(g.nodes) : g \in Range(GetAllGraphs(bp))}

NodeByGuid(bp, guid) == CHOOSE n \in AllNodes(bp) : n.guid = guid

\* the handler's write to the disk was refused
WriteFailed(eff) == \E i \in 1..Len(eff) : eff[i].call = "SaveStringToFile_failed"

C3_ApplyStep ==
    LET P == request'.params
        matches == NodesToRedirect(blueprint, P.source_function)
        n == Len(matches)
    IN
    (/\ Answers
     /\ RedirectWellFormed(request')
     /\ ~AsksDryRun(request')
     /\ ~HasField(P, "backup") \/ P.backup
     /\ Loads(request', P.source_blueprint)
     /\ TargetOf(request') # NullFunction
     /\ n >= 1
     /\ ~WriteFailed(effects'))
    => /\ HasField(response', "nodes_found") /\ response'.nodes_found = n
       /\ HasField(response', "nodes_redirected") /\ response'.nodes_redirected = n
       /\ HasField(response', "backup_path")
       /\ response'.backup_path # ""
       /\ response'.backup_path \in DOMAIN files'
       /\ HasField(response', "requires_compile") /\ response'.requires_compile
       /\ blueprint'.modified
       /\ \A i \in 1..n :
            GetTargetFunction(NodeByGuid(blueprint', matches[i].node.guid))
                = TargetOf(request')

\* C3: on a Blueprint with n >= 1 call nodes of source_function, a
\* redirect_function_call with dry_run=false and backup=true whose target
\* resolves and whose backup is written answers nodes_found = n,
\* nodes_redirected = n, a backup_path that is not empty and names the
\* written file, and requires_compile = true; each of the n nodes then calls
\* the target and the Blueprint is marked modified.
C3_ApplyRedirectsAll == [][C3_ApplyStep]_vars

\* the two calls of OldFunc were redirected and their backup is on the disk
C3_Witness ==
    /\ RedirectWellFormed(request)
    /\ HasField(response, "nodes_redirected") /\ response.nodes_redirected = 2
    /\ HasField(response, "backup_path") /\ response.backup_path \in DOMAIN files
    /\ blueprint.modified

C4_NoMatchStep ==
    LET P == request'.params IN
    (/\ Answers
     /\ RedirectWellFormed(request')
     /\ Loads(request', P.source_blueprint)
     /\ TargetOf(request') # NullFunction
     /\ Len(NodesToRedirect(blueprint, P.source_function)) = 0)
    => /\ ~HasField(response', "error")
       /\ request'.module = "command" => response'.success = TRUE
       /\ response'.nodes_found = 0
       /\ response'.changes = <<>>
       /\ response'.dry_run = AsksDryRun(request')
       /\ response'.message = "No matching function calls found to redirect"
       /\ ~HasField(response', "nodes_redirected")
       /\ ~HasField(response', "backup_path")
       /\ blueprint' = blueprint
       /\ files' = files
       /\ effects' = <<>>

\* C4: when the discovery of a redirect_function_call finds no matching call
\* node, the answer is the "no matches" response (nodes_found = 0, no changes,
\* not a failure) with dry_run true as with dry_run false, and no backup is
\* written, no node is rewritten and the Blueprint is not marked modified.
C4_NoMatchesIsTerminal == [][C4_NoMatchStep]_vars

\* a redirect with dry_run=false and backup=true found nothing to redirect
C4_Witness ==
    /\ RedirectWellFormed(request)
    /\ ~AsksDryRun(request)
    /\ ~HasField(request.params, "backup") \/ request.params.backup
    /\ HasField(response, "nodes_found") /\ response.nodes_found = 0
    /\ ~blueprint.modified
    /\ files = EmptyObject

\* the host knows the class, loaded or loadable
ClassFound(TargetClass) ==
    FindObject_UClass(TargetClass) # NullClass \/ LoadClass_UObject(TargetClass) # NullClass

\* the handler changed nothing and called nothing
Untouched == blueprint' = blueprint /\ files' = files /\ effects' = <<>>

\* a redirect request that reaches the steps after the load
RedirectLoaded(req) ==
    RedirectWellFormed(req) /\ Loads(req, req.params.source_blueprint)

C5_DiscoverFirstStep ==
    LET P == request'.params IN
    (/\ Answers
     /\ RedirectLoaded(request')
     /\ AsksDryRun(request') \/ Len(NodesToRedirect(blueprint, P.source_function)) = 0)
    => /\ ~HasField(response', "error")
       /\ HasField(response', "nodes_found")

\* C5 as the specification states it: Discover, then Preview or Apply, the
\* target being resolved in Apply only.  A well-formed request whose Blueprint
\* loads and which asks for a dry run, or which matches no node, gets its
\* Preview or "no matches" response whether or not its target resolves.
C5_DiscoverBeforeResolve == [][C5_DiscoverFirstStep]_vars

C5_ResolveFirstStep ==
    LET P == request'.params
        n == Len(NodesToRedirect(blueprint, P.source_function))
    IN
    (Answers /\ RedirectLoaded(request'))
    => IF ~ClassFound(P.target_class)
       THEN /\ response'.success = FALSE
            /\ response'.error = "Target class not found: " \o P.target_class
            /\ Untouched
       ELSE IF TargetOf(request') = NullFunction
       THEN /\ response'.success = FALSE
            /\ response'.error = "Target function not found: " \o P.target_class
                                     \o "::" \o P.target_function
            /\ Untouched
       ELSE /\ ~HasField(response', "error")
            /\ response'.nodes_found = n
            /\ (AsksDryRun(request') \/ n = 0) => (Untouched /\ ~Applied(response'))
            /\ (~AsksDryRun(request') /\ n > 0) => Applied(response')

\* C5, amended: the target is resolved before the discovery, for every
\* request.  A well-formed redirect_function_call whose Blueprint loads and
\* whose target class or function does not resolve fails with "not found",
\* with dry_run true as with dry_run false and with or without matching
\* nodes, and touches nothing; when the target resolves the discovery is
\* performed and reported, and it ends in Preview (dry run), "no matches"
\* (no node) or Apply.
C5_ResolveBeforeDiscover == [][C5_ResolveFirstStep]_vars

\* a dry run was refused for its target class
C5_Witness ==
    /\ RedirectLoaded(request)
    /\ HasField(request.params, "dry_run") /\ request.params.dry_run
    /\ ~ClassFound(request.params.target_class)
    /\ HasField(response, "error")

MutationCommands ==
    {"redirect_function_call", "delete_blueprint_function", "set_blueprint_parent_class"}

\* the fields a mutation handler asks for before it loads the Blueprint
Required(command) ==
    IF command = "redirect_function_call" THEN RedirectRequired
    ELSE IF command = "delete_blueprint_function" THEN {"blueprint_path", "function_name"}
    ELSE {"blueprint_path", "new_parent_class"}

\* a request to a mutation handler that reaches the load of its subject
MutationWellFormed(req) ==
    /\ req.command \in MutationCommands
    /\ req.json
    /\ Required(req.command) \subseteq DOMAIN req.params

SubjectOf(req) ==
    IF req.command = "redirect_function_call"
    THEN req.params.source_blueprint ELSE req.params.blueprint_path

\* the Blueprint has a graph of that name
GraphNamed(bp, FunctionName) ==
    \E g \in Range(GetAllGraphs(bp)) \cup Range(bp.FunctionGraphs) : g.name = FunctionName

\* the module's lookups of a parent class
ResolveNewParent(req) ==
    IF req.module = "command"
    THEN Command_ResolveNewParentClass(req.params.new_parent_class)
    ELSE Handler_ResolveNewParentClass(req.params.new_parent_class)

\* what the request names cannot be resolved: the subject, or the function
\* graph, the target class, the target function, the parent class
NotFound(req, bp) ==
    \/ ~Loads(req, SubjectOf(req))
    \/ /\ req.command = "redirect_function_call"
       /\ ~ClassFound(req.params.target_class) \/ TargetOf(req) = NullFunction
    \/ /\ req.command = "delete_blueprint_function"
       /\ ~GraphNamed(bp, req.params.function_name)
    \/ /\ req.command = "set_blueprint_parent_class"
       /\ ResolveNewParent(req) = NullClass

C6_NotFoundStep ==
    /\ (Answers /\ MutationWellFormed(request') /\ NotFound(request', blueprint))
       => /\ DOMAIN response' = {"success", "error"}
          /\ response'.success = FALSE
          /\ Untouched
    /\ (Answers /\ request'.command \in MutationCommands /\ HasField(response', "error"))
       => Untouched

\* C6: a redirect_function_call, delete_blueprint_function or
\* set_blueprint_parent_class whose Blueprint, function graph, target class,
\* target function or parent class cannot be resolved answers with a failure,
\* and a mutation handler that answers with a failure has written no file,
\* changed no graph, node or parent and not marked the Blueprint modified.
C6_NotFoundTouchesNothing == [][C6_NotFoundStep]_vars

\* a delete with backup=true found no graph of the name it was given
C6_Witness ==
    /\ MutationWellFormed(request)
    /\ request.command = "delete_blueprint_function"
    /\ AsksBackup(request)
    /\ Loads(request, SubjectOf(request))
    /\ ~GraphNamed(blueprint, request.params.function_name)
    /\ HasField(response, "error")
    /\ files = EmptyObject
    /\ ~blueprint.modified

SaveCalls == {"SaveStringToFile", "SaveStringToFile_failed"}

MutationCalls == {"SetFromFunction", "RemoveGraph", "SetParentClass"}

\* the handler changed the Blueprint
Mutates(eff) == \E j \in 1..Len(eff) : eff[j].call \in MutationCalls

\* the backup document describes the Blueprint bp as the request req found it
DescribesBefore(payload, req, bp) ==
    IF req.command = "redirect_function_call"
    THEN LET matches == NodesToRedirect(bp, req.params.source_function) IN
         /\ Len(payload.original_state) = Len(matches)
         /\ \A i \in 1..Len(matches) :
              /\ payload.original_state[i].node_guid = matches[i].node.guid
              /\ payload.original_state[i].original_function
                    = OwnerClassName(matches[i].node.fn) \o "::" \o matches[i].node.fn.name
    ELSE IF req.command = "delete_blueprint_function"
    THEN LET g == GraphAt(bp, FindGraphToDelete(bp, req.params.function_name)) IN
         /\ payload.function_name = req.params.function_name
         /\ payload.graph_data.name = g.name
         /\ payload.graph_data.node_count = Len(g.nodes)
         /\ [i \in 1..Len(g.nodes) |-> payload.graph_data.nodes[i].guid]
              = [i \in 1..Len(g.nodes) |-> g.nodes[i].guid]
    ELSE /\ payload.old_parent_class
              = (IF bp.ParentClass # NullClass THEN bp.ParentClass ELSE "None")
         /\ payload.new_parent_class = ResolveNewParent(req)

C7_BackupFirstStep ==
    (/\ Answers
     /\ MutationWellFormed(request')
     /\ AsksBackup(request')
     /\ Mutates(effects'))
    => /\ effects'[1].call \in SaveCalls
       /\ \A j \in 2..Len(effects') : effects'[j].call \notin SaveCalls
       /\ effects'[1].call = "SaveStringToFile"
          => /\ effects'[1].arg \in DOMAIN files'
             /\ DescribesBefore(files'[effects'[1].arg], request', blueprint)

\* C7: when a redirect_function_call (dry_run=false, at least one match), a
\* delete_blueprint_function or a set_blueprint_parent_class runs with
\* backup=true, its one write of the backup file is attempted before the
\* first change to the Blueprint, and the document written describes the
\* Blueprint as it was before: the discovered changes, the graph to delete,
\* the old and the new parent.
C7_BackupBeforeMutation == [][C7_BackupFirstStep]_vars

\* a reparent to another class has left its backup on the disk
C7_Witness ==
    /\ request.command = "set_blueprint_parent_class"
    /\ AsksBackup(request)
    /\ Mutates(effects)
    /\ effects[1].call = "SaveStringToFile"
    /\ files[effects[1].arg].old_parent_class # blueprint.ParentClass

\* the request reaches the step that writes the backup
ReachesBackup(req, bp) ==
    /\ MutationWellFormed(req)
    /\ AsksBackup(req)
    /\ ~NotFound(req, bp)
    /\ req.command = "redirect_function_call"
       => /\ ~AsksDryRun(req)
          /\ Len(NodesToRedirect(bp, req.params.source_function)) > 0

\* the mutation the request asks for has been made, from bp to after
Performed(req, bp, after) ==
    IF req.command = "redirect_function_call"
    THEN LET matches == NodesToRedirect(bp, req.params.source_function) IN
         \A i \in 1..Len(matches) :
            GetTargetFunction(NodeByGuid(after, matches[i].node.guid)) = TargetOf(req)
    ELSE IF req.command = "delete_blueprint_function"
    THEN /\ Len(GetAllGraphs(after)) = Len(GetAllGraphs(bp)) - 1
         /\ \A g \in Range(GetAllGraphs(after)) :
              g # GraphAt(bp, FindGraphToDelete(bp, req.params.function_name))
    ELSE after.ParentClass = ResolveNewParent(req)

C8_FailedBackupStep ==
    (/\ Answers
     /\ ReachesBackup(request', blueprint)
     /\ \A j \in 1..Len(effects') : effects'[j].call # "SaveStringToFile")
    => /\ Performed(request', blueprint, blueprint')
       /\ blueprint'.modified
       /\ files' = files
       /\ ~HasField(response', "error")
       /\ HasField(response', "requires_compile") /\ response'.requires_compile
       /\ IF request'.command = "redirect_function_call"
          THEN HasField(response', "backup_path") /\ response'.backup_path = ""
          ELSE ~HasField(response', "backup_path")

ExportLoaded(req) ==
    /\ req.command = "export_blueprint_graph"
    /\ req.json
    /\ HasField(req.params, "blueprint_path")
    /\ Loads(req, req.params.blueprint_path)

\* the handler wrote a file
Wrote(eff) == \E j \in 1..Len(eff) : eff[j].call = "SaveStringToFile"

C9_ExportStep ==
    (Answers /\ ExportLoaded(request'))
    => /\ blueprint' = blueprint
       /\ IF Wrote(effects')
          THEN /\ response'.success = TRUE
               /\ response'.file_path # ""
               /\ response'.file_path \in DOMAIN files'
               /\ HasField(response', "graph_count")
               /\ HasField(response', "node_count")
          ELSE /\ DOMAIN response' = {"success", "error"}
               /\ response'.success = FALSE
               /\ response'.error = "Failed to write export file"
               /\ files' = files

\* C9: an export_blueprint_graph whose file cannot be written fails as a
\* whole: its answer is the failure envelope, without file_path, graph_count
\* or node_count, and no file appears.  It answers success only when the file
\* was written, and then file_path is not empty and names the written file.
C9_ExportFailsWithoutFile == [][C9_ExportStep]_vars

\* an export of the loaded Blueprint was refused by the disk
C9_Witness ==
    /\ ExportLoaded(request)
    /\ WriteFailed(effects)
    /\ HasField(response, "error")
    /\ files = EmptyObject

\* C10: every response of every operation, of the command classes and of
\* the monolithic handler alike, carries a boolean success; a failure carries
\* success=false and error and nothing else, and every other response
\* carries success=true.
C10_EveryResponseHasSuccess ==
    served > 0
    => /\ HasField(response, "success")
       /\ response.success \in BOOLEAN
       /\ HasField(response, "error")
          => (response.success = FALSE /\ DOMAIN response = {"success", "error"})
       /\ ~HasField(response, "error") => response.success = TRUE

MigrationCommands ==
    {"export_blueprint_graph", "get_blueprint_dependencies", "find_blueprint_references",
     "redirect_function_call", "delete_blueprint_function", "set_blueprint_parent_class",
     "get_blueprint_functions"}

\* the string fields an operation requires
RequiredOf(command) ==
    IF command \in MutationCommands THEN Required(command)
    ELSE IF command = "find_blueprint_references" THEN {"target_path"}
    ELSE {"blueprint_path"}

\* the request is malformed, or one of its required fields is missing or empty
InputError(req) ==
    \/ ~req.json
    \/ \E f \in RequiredOf(req.command) : ~HasField(req.params, f) \/ req.params[f] = ""

\* the messages of the rejections made before the host is asked anything
InputErrorMessages ==
    {"Invalid JSON parameters"}
    \cup {"Missing '" \o f \o "' parameter" :
            f \in UNION {RequiredOf(c) : c \in MigrationCommands}}

C11_InputErrorStep ==
    (Answers /\ request'.command \in MigrationCommands /\ InputError(request'))
    => /\ DOMAIN response' = {"success", "error"}
       /\ response'.success = FALSE
       /\ response'.error \in InputErrorMessages
       /\ Untouched

\* C11: a request of one of the seven operations that is malformed, or whose
\* required string field is missing or empty, is answered with a failure
\* whose message is that of the parameter check made before the Blueprint is
\* loaded or any class or index is looked up, and nothing is changed.
C11_InputErrorRejectedFirst == [][C11_InputErrorStep]_vars

\* the names a graph of the Blueprint can have
GraphNames == {g.name : g \in Range(GetAllGraphs(Blueprint0(NullClass)))}

\* the answer of a delete that removed its graph
Deleted(req, resp) ==
    req.command = "delete_blueprint_function" /\ HasField(resp, "nodes_removed")

C12_DeleteTwiceStep ==
    /\ (Answers /\ Deleted(request', response'))
       => ~GraphNamed(blueprint', request'.params.function_name)
    /\ \A f \in GraphNames : ~GraphNamed(blueprint, f) => ~GraphNamed(blueprint', f)
    /\ (/\ Answers
        /\ MutationWellFormed(request')
        /\ request'.command = "delete_blueprint_function"
        /\ Loads(request', SubjectOf(request'))
        /\ ~GraphNamed(blueprint, request'.params.function_name))
       => /\ DOMAIN response' = {"success", "error"}
          /\ response'.success = FALSE
          /\ response'.error = "Function graph not found: " \o request'.params.function_name
          /\ Untouched

\* C12: a delete_blueprint_function that succeeds leaves the Blueprint
\* without a graph of that name, no operation of the system brings a graph
\* name back, and a delete_blueprint_function for a name the Blueprint has no
\* graph of answers "Function graph not found", removes nothing and writes no
\* backup; so every delete of f after a successful delete of f is refused.
C12_SecondDeleteNotFound == [][C12_DeleteTwiceStep]_vars

\* DoWork was deleted, and the delete of DoWork that followed was refused
C12_Witness ==
    /\ served = 2
    /\ request.command = "delete_blueprint_function"
    /\ HasField(request.params, "function_name")
    /\ request.params.function_name = "DoWork"
    /\ HasField(response, "error")
    /\ response.error = "Function graph not found: DoWork"
    /\ blueprint.modified
    /\ Len(blueprint.FunctionGraphs) = 1
    /\ \A p \in DOMAIN files : files[p].function_name = "DoWork"

NoDuplicates(s) == \A i, j \in 1..Len(s) : i # j => s[i] # s[j]

\* the answer of a get_blueprint_dependencies that analysed its Blueprint
Analysed(req, resp) ==
    req.command = "get_blueprint_dependencies" /\ HasField(resp, "native_classes")

C13_DisjointStep ==
    (Answers /\ Analysed(request', response'))
    => LET a == response'.assets
           b == response'.blueprints
           n == response'.native_classes
       IN  /\ Range(a) \cap Range(b) = {}
           /\ Range(a) \cap Range(n) = {}
           /\ Range(b) \cap Range(n) = {}
           /\ NoDuplicates(a) /\ NoDuplicates(b) /\ NoDuplicates(n)
           /\ Range(a) \cup Range(b) \cup Range(n) \subseteq Range(GetDependencies)

\* C13: in every answer of get_blueprint_dependencies, with
\* include_engine_classes true or false, assets, blueprints and
\* native_classes are pairwise disjoint lists of dependencies of the
\* Blueprint's package, and none of them names a dependency twice.
C13_DependencySetsDisjoint == [][C13_DisjointStep]_vars

\* an analysis with the engine's content: the mesh the index names twice is
\* listed once, beside a Blueprint and the native packages
C13_Witness ==
    /\ Analysed(request, response)
    /\ Len(response.assets) = 3
    /\ Len(response.blueprints) = 1
    /\ Len(response.native_classes) = 2
    /\ "/Game/Meshes/SM_Rock" \in Range(response.assets)

\* the functions the call nodes of the Blueprint resolve to
CalledFunctions(bp) ==
    {GetTargetFunction(n) : n \in {m \in AllNodes(bp) : IsCallFunction(m)}} \ {NullFunction}

\* the function's owner class lives under /Script/ or /Engine/
IsEngineFunction(Function) ==
    Function.cls # NullClass /\ IsEnginePath(ClassPath[Function.cls])

\* the functions named by the function_calls of an answer
ReportedCalls(resp) == {resp.function_calls[i].function : i \in 1..Len(resp.function_calls)}

C14_EngineFilterStep ==
    (Answers /\ Analysed(request', response'))
    => LET ids == Range(response'.assets) \cup Range(response'.blueprints)
                    \cup Range(response'.native_classes)
       IN  IF BoolParam(request'.params, "include_engine_classes", FALSE)
           THEN /\ ids = Range(GetDependencies)
                /\ ReportedCalls(response')
                     = {FunctionKey(f) : f \in CalledFunctions(blueprint)}
           ELSE /\ \A d \in ids : ~IsEnginePath(d)
                /\ \A f \in CalledFunctions(blueprint) :
                     IsEngineFunction(f) => FunctionKey(f) \notin ReportedCalls(response')

\* C14: without include_engine_classes, an answer of
\* get_blueprint_dependencies names no asset, Blueprint or native package
\* under /Script/ or /Engine/ and no call of a function whose owner class
\* lives under /Script/ or /Engine/; with include_engine_classes, every
\* dependency and every called function is named.
C14_EngineContentDropped == [][C14_EngineFilterStep]_vars

\* the answer of an export_blueprint_graph that wrote its file
Exported(req, resp) ==
    req.command = "export_blueprint_graph" /\ HasField(resp, "file_path")

\* the "connections" of a serialized pin, none when the field is left out
ConnectionsOf(pinDoc) ==
    IF HasField(pinDoc, "connections") THEN pinDoc.connections ELSE <<>>

\* the serialized pins are the node's pins of that direction, in Pins order,
\* each with its links in LinkedTo order
PinsInOrder(pinDocs, node, direction) ==
    LET pins == SelectSeq(node.pins, LAMBDA q : q.direction = direction) IN
    /\ Len(pinDocs) = Len(pins)
    /\ \A k \in 1..Len(pins) :
         /\ pinDocs[k].name = pins[k].name
         /\ ConnectionsOf(pinDocs[k])
              = [l \in 1..Len(pins[k].links) |->
                    [node_guid |-> pins[k].links[l].node_guid,
                     pin_name |-> pins[k].links[l].pin_name]]

\* the serialized graph lists the graph's nodes in Nodes order
GraphInOrder(graphDoc, graph) ==
    LET nodes == SelectSeq(graph.nodes, LAMBDA n : n.guid # "") IN
    /\ graphDoc.name = graph.name
    /\ Len(graphDoc.nodes) = Len(nodes)
    /\ \A k \in 1..Len(nodes) :
         /\ graphDoc.nodes[k].guid = nodes[k].guid
         /\ PinsInOrder(graphDoc.nodes[k].input_pins, nodes[k], "Input")
         /\ PinsInOrder(graphDoc.nodes[k].output_pins, nodes[k], "Output")

C15_DeterminismStep ==
    (Answers /\ Exported(request', response'))
    => LET doc == files'[response'.file_path]
           gs == ExportedGraphs(blueprint, StringParam(request'.params, "graph_name"))
       IN  /\ Len(doc.graphs) = Len(gs)
           /\ \A i \in 1..Len(gs) : GraphInOrder(doc.graphs[i], gs[i])
           /\ (Exported(request, response) /\ request'.params = request.params)
              => doc = files[response.file_path]

\* C15: the document an export_blueprint_graph writes lists the graphs in
\* GetAllGraphs order, the nodes of each graph in the graph's order, the pins
\* of each node in the node's order and the connections of each pin in the
\* pin's link order; and an export that follows an export with the same
\* parameters on the unchanged Blueprint, at the same or at a later time, by
\* the same or by the other module, writes a document equal to the first.
C15_SerializationDeterministic == [][C15_DeterminismStep]_vars

\* two exports with the same parameters, a second apart, left two files
C15_Witness ==
    /\ served = 2
    /\ Exported(request, response)
    /\ Cardinality(DOMAIN files) = 2
    /\ \A p, q \in DOMAIN files : files[p] = files[q]
    /\ Len(files[response.file_path].graphs) = 4

\* the host records, on the input pin peerPin of the node peerGuid of the
\* graph, a link to the pin of the node guid
HostLinksBack(graph, peerGuid, peerPin, guid, pin) ==
    \E m \in Range(graph.nodes) :
        /\ m.guid = peerGuid
        /\ \E q \in Range(m.pins) :
             /\ q.name = peerPin /\ q.direction = "Input"
             /\ Link(guid, pin) \in Range(q.links)

\* the serialized graph records that link on the serialized input pin
DocLinksBack(graphDoc, peerGuid, peerPin, guid, pin) ==
    \E m \in Range(graphDoc.nodes) :
        /\ m.guid = peerGuid
        /\ \E q \in Range(m.input_pins) :
             /\ q.name = peerPin
             /\ [node_guid |-> guid, pin_name |-> pin] \in Range(ConnectionsOf(q))

\* every connection of every output pin of the serialized graph is recorded
\* back exactly when the host records it back
SymmetricAsHost(graphDoc, graph) ==
    \A N \in Range(graphDoc.nodes) : \A P \in Range(N.output_pins) :
        \A c \in Range(ConnectionsOf(P)) :
            DocLinksBack(graphDoc, c.node_guid, c.pin_name, N.guid, P.name)
                <=> HostLinksBack(graph, c.node_guid, c.pin_name, N.guid, P.name)

C16_SymmetryStep ==
    (Answers /\ Exported(request', response'))
    => LET doc == files'[response'.file_path]
           gs == ExportedGraphs(blueprint, StringParam(request'.params, "graph_name"))
       IN  /\ Len(doc.graphs) = Len(gs)
           /\ \A i \in 1..Len(gs) : SymmetricAsHost(doc.graphs[i], gs[i])

RECURSIVE NodeEntries(_)
\* the number of node entries of a list of serialized graphs
NodeEntries(graphDocs) ==
    IF graphDocs = <<>> THEN 0
    ELSE Len(Head(graphDocs).nodes) + NodeEntries(Tail(graphDocs))

C17_CountsStep ==
    (Answers /\ Exported(request', response'))
    => LET doc == files'[response'.file_path] IN
       /\ response'.graph_count = Len(doc.graphs)
       /\ response'.node_count = NodeEntries(doc.graphs)
       /\ \A i \in 1..Len(doc.graphs) :
            doc.graphs[i].node_count = Len(doc.graphs[i].nodes)

\* C17: the graph_count an export_blueprint_graph reports is the number of
\* graph entries of the document it wrote, its node_count is the number of
\* node entries of those graphs together, and the node_count of each graph
\* entry is the length of its nodes list.
C17_CountsMatchDocument == [][C17_CountsStep]_vars

C18_WriteOnceStep ==
    \A p \in DOMAIN files : p \in DOMAIN files' /\ files'[p] = files[p]

\* C18: a backup or export file, once written, keeps the content it was
\* written with: no step of any operation, at any clock time, removes a file
\* of the export directory or changes what it holds.
C18_FilesWrittenOnce == [][C18_WriteOnceStep]_vars

\* a reparent request that reaches the lookup of its parent class
ReparentLoaded(req) ==
    /\ MutationWellFormed(req)
    /\ req.command = "set_blueprint_parent_class"
    /\ Loads(req, SubjectOf(req))

\* the calls a reparent makes on the Blueprint, in their order
ReparentCalls(eff) ==
    SelectSeq(eff, LAMBDA e : e.call \notin SaveCalls)

C19_ReparentStep ==
    (Answers /\ ReparentLoaded(request') /\ ResolveNewParent(request') # NullClass)
    => LET c == ResolveNewParent(request') IN
       /\ blueprint'.ParentClass = c
       /\ blueprint'.modified
       /\ [i \in 1..Len(ReparentCalls(effects')) |-> ReparentCalls(effects')[i].call]
            = <<"SetParentClass", "RefreshAllNodes", "MarkBlueprintAsModified">>
       /\ response'.success = TRUE
       /\ ~HasField(response', "error")
       /\ response'.new_parent_class = c
       /\ response'.old_parent_class
            = (IF blueprint.ParentClass = NullClass THEN "None" ELSE blueprint.ParentClass)

\* C19: a set_blueprint_parent_class whose Blueprint loads and whose
\* new_parent_class resolves is never refused, whether or not the class
\* descends from the super class of the current parent: the resolved class
\* becomes the parent, the nodes are refreshed, the Blueprint is marked
\* modified, and the answer is a success whose old_parent_class is the
\* parent held before the call, "None" when there was none.
C19_ReparentNeverRefused == [][C19_ReparentStep]_vars

\* a Blueprint of parent OldClass was given a parent that does not descend
\* from OldClass's super class
C19_Witness ==
    /\ ReparentLoaded(request)
    /\ HasField(response, "old_parent_class")
    /\ response.old_parent_class = "OldClass"
    /\ blueprint.ParentClass = "UHeroComponent"
    /\ ~IsChildOf(blueprint.ParentClass, SuperClass["OldClass"])
    /\ blueprint.modified

\* exact lookup, load by name, lookup with the "A" prefix, with the "U" prefix
FourLookups(Name) ==
    << FindObject_UClass(Name), LoadClass_UObject(Name),
       FindObject_UClass("A" \o Name), FindObject_UClass("U" \o Name) >>

\* the answer and the Blueprint are those of a reparent that tried the steps
\* in their order and took the first class found, or found none
ResolvedBy(steps, Name) ==
    IF \A i \in 1..Len(steps) : steps[i] = NullClass
    THEN /\ response'.success = FALSE
         /\ response'.error = "Parent class not found: " \o Name
         /\ Untouched
    ELSE \E i \in 1..Len(steps) :
            /\ steps[i] # NullClass
            /\ \A j \in 1..(i - 1) : steps[j] = NullClass
            /\ blueprint'.ParentClass = steps[i]
            /\ response'.new_parent_class = steps[i]

C20_FourStepsStep ==
    (Answers /\ ReparentLoaded(request'))
    => ResolvedBy(FourLookups(request'.params.new_parent_class),
                  request'.params.new_parent_class)

C20_ServiceFirstStep ==
    (Answers /\ ReparentLoaded(request'))
    => LET Name == request'.params.new_parent_class IN
       IF request'.module = "command"
       THEN ResolvedBy(<<ResolveParentClassForBlueprint(Name)>> \o FourLookups(Name), Name)
       ELSE ResolvedBy(FourLookups(Name), Name)

ReferencesAsked(req) ==
    /\ req.command = "find_blueprint_references"
    /\ req.json
    /\ HasField(req.params, "target_path")

\* the paths of the referencers a response lists, in its order
ReferencerPaths(resp) ==
    [i \in 1..Len(resp.referencers) |-> resp.referencers[i].referencer_path]

\* the referencers the index holds for an identifier, without the built-in ones
IndexAnswer(TargetId) ==
    SelectSeq(GetReferencers(TargetId),
              LAMBDA r : ~StartsWith(r, "/Script/") /\ ~StartsWith(r, "/Engine/"))

C21_RawPathStep ==
    (Answers /\ ReferencesAsked(request'))
    => LET TargetPath == request'.params.target_path IN
       /\ ~HasField(response', "error")
       /\ HasField(response', "success") => response'.success = TRUE
       /\ request'.module = "command" => HasField(response', "success")
       /\ response'.target_path = TargetPath
       /\ response'.referencer_count = Len(response'.referencers)
       /\ ReferencerPaths(response') =
            IF Loads(request', TargetPath)
            THEN IndexAnswer(BlueprintPackage)
            ELSE IndexAnswer(TargetPath)
       /\ Untouched

\* C21: find_blueprint_references never fails because its target does not
\* load: when target_path names no Blueprint the index is asked for the
\* referencers of the target_path string itself, when it names one the index
\* is asked for the referencers of the Blueprint's package, and in both cases
\* the answer is a success that lists what the index returned.
C21_ReferencesNeverFailOnLoad == [][C21_RawPathStep]_vars

\* the target does not load and the index knows referencers of its path
C21_Witness ==
    /\ ReferencesAsked(request)
    /\ ~Loads(request, request.params.target_path)
    /\ HasField(response, "referencers")
    /\ ReferencerPaths(response) = << "/Game/Maps/Level1" >>

\* the serialized pins of a document, of every node of every graph
PinDocs(doc) ==
    UNION { UNION { Range(doc.graphs[i].nodes[k].input_pins)
                      \cup Range(doc.graphs[i].nodes[k].output_pins) :
                    k \in 1..Len(doc.graphs[i].nodes) } :
            i \in 1..Len(doc.graphs) }

DefaultFields == {"default_value", "default_object", "default_text"}

\* the pins of the exported graphs that hold a default
PinsWithDefault(gs) ==
    { q \in UNION { Range(n.pins) : n \in UNION { Range(gs[i].nodes) : i \in 1..Len(gs) } } :
        q.default_value # "" \/ q.default_object # "" \/ q.default_text # "" }

C22_DefaultsStep ==
    (Answers /\ Exported(request', response'))
    => LET doc == files'[response'.file_path]
           gs == ExportedGraphs(blueprint, StringParam(request'.params, "graph_name"))
       IN  IF BoolParam(request'.params, "include_defaults", FALSE)
           THEN \A q \in PinsWithDefault(gs) :
                  \E d \in PinDocs(doc) :
                     /\ d.name = q.name
                     /\ q.default_value # ""
                        => HasField(d, "default_value") /\ d.default_value = q.default_value
           ELSE \A d \in PinDocs(doc) : DOMAIN d \cap DefaultFields = {}

\* C22: an export_blueprint_graph without include_defaults, or with
\* include_defaults false, writes a document in which no pin carries
\* default_value, default_object or default_text; with include_defaults true
\* the document carries the non-empty defaults of the pins.
C22_DefaultsOnlyOnRequest == [][C22_DefaultsStep]_vars

\* a delete request that reaches the search for its graph
DeleteLoaded(req) ==
    /\ MutationWellFormed(req)
    /\ req.command = "delete_blueprint_function"
    /\ Loads(req, SubjectOf(req))

\* a sequence without its element at index i
Without(gs, i) == SubSeq(gs, 1, i - 1) \o SubSeq(gs, i + 1, Len(gs))

\* the indices of the graphs of gs that carry the name
IndicesNamed(gs, Name) == {i \in 1..Len(gs) : gs[i].name = Name}

Least(S) == CHOOSE i \in S : \A j \in S : i <= j

C23_DeleteOneStep ==
    (Answers /\ DeleteLoaded(request')
            /\ GraphNamed(blueprint, request'.params.function_name))
    => LET Name == request'.params.function_name
           all == GetAllGraphs(blueprint)
           fns == blueprint.FunctionGraphs
           inAll == IndicesNamed(all, Name)
       IN
       /\ HasField(response', "nodes_removed")
       /\ IF inAll # {}
          THEN /\ GetAllGraphs(blueprint') = Without(all, Least(inAll))
               /\ response'.nodes_removed = Len(all[Least(inAll)].nodes)
          ELSE /\ blueprint'.FunctionGraphs = Without(fns, Least(IndicesNamed(fns, Name)))
               /\ response'.nodes_removed
                    = Len(fns[Least(IndicesNamed(fns, Name))].nodes)
       /\ Len(blueprint'.UbergraphPages) + Len(blueprint'.FunctionGraphs)
            + Len(blueprint'.MacroGraphs)
          = Len(blueprint.UbergraphPages) + Len(blueprint.FunctionGraphs)
            + Len(blueprint.MacroGraphs) - 1
       /\ \A l \in {"UbergraphPages", "FunctionGraphs", "MacroGraphs"} :
            \A g \in Range(blueprint[l]) :
               g.name # Name => g \in Range(blueprint'[l])
       /\ blueprint'.ParentClass = blueprint.ParentClass
       /\ blueprint'.modified

\* C23: a delete_blueprint_function whose Blueprint loads and has a graph of
\* the name removes one graph, the first of GetAllGraphs whose name is
\* function_name or else the first of FunctionGraphs; every other graph stays
\* in its list and in its place, nodes_removed is the length of the removed
\* graph's Nodes before the removal, and the Blueprint is marked modified.
C23_DeleteRemovesOneGraph == [][C23_DeleteOneStep]_vars

\* DoWork left the function graphs, Helper after it stayed
C23_Witness ==
    /\ DeleteLoaded(request)
    /\ request.params.function_name = "DoWork"
    /\ HasField(response, "nodes_removed") /\ response.nodes_removed = 3
    /\ blueprint.FunctionGraphs = <<Helper0>>
    /\ blueprint.UbergraphPages = <<EventGraph0>>
    /\ blueprint.MacroGraphs = <<Macro0>>
    /\ blueprint.modified

\* the fields serialize_graph gives every node and every pin
NodeDocFields ==
    {"guid", "class", "title", "pos_x", "pos_y", "comment",
     "comment_bubble_visible", "node_type", "input_pins", "output_pins"}

PinDocFields == {"name", "direction", "category", "is_array", "is_reference", "is_const"}

\* a graph document with the node and pin fields of serialize_graph
FullGraphDoc(graphDoc) ==
    \A k \in 1..Len(graphDoc.nodes) :
       /\ NodeDocFields \subseteq DOMAIN graphDoc.nodes[k]
       /\ \A d \in Range(graphDoc.nodes[k].input_pins)
                     \cup Range(graphDoc.nodes[k].output_pins) :
             PinDocFields \subseteq DOMAIN d

C24_BackupPayloadStep ==
    (Answers /\ DeleteLoaded(request') /\ HasField(response', "backup_path"))
    => LET payload == files'[response'.backup_path].graph_data
           g == GraphAt(blueprint, FindGraphToDelete(blueprint, request'.params.function_name))
       IN  /\ FullGraphDoc(payload)
           /\ payload = SerializeGraph(g, TRUE)

\* C24: the graph_data of the backup a delete_blueprint_function writes is
\* the document the export serializer gives for the graph: every node with
\* its identifier, class, title, position, comment fields, kind-specific
\* fields and separate input and output pin lists, every pin with its
\* array, reference and const flags; and this is so for the command class and
\* for the monolithic handler, which therefore write the same payload.
C24_BackupIsFullDocument == [][C24_BackupPayloadStep]_vars

\* the call nodes of the Blueprint whose target function carries the name
CallsOf(bp, TargetFunction) ==
    { n \in AllNodes(bp) :
        /\ n.class = "K2Node_CallFunction"
        /\ n.fn # NullFunction
        /\ n.fn.name = TargetFunction }

\* the locations list each call node of the set once, and nothing else
LocatesExactly(locs, nodes) ==
    /\ Len(locs) = Cardinality(nodes)
    /\ {locs[i].node_guid : i \in 1..Len(locs)} = {n.guid : n \in nodes}
    /\ \A i \in 1..Len(locs) :
          \E g \in Range(GetAllGraphs(blueprint)) :
              /\ locs[i].graph = g.name
              /\ \E n \in Range(g.nodes) : n.guid = locs[i].node_guid

C25_ReferencersStep ==
    (Answers /\ ReferencesAsked(request'))
    => LET TargetFunction == StringParam(request'.params, "target_function")
           refs == response'.referencers
           index == GetReferencers(IF Loads(request', request'.params.target_path)
                                   THEN BlueprintPackage
                                   ELSE request'.params.target_path)
       IN
       /\ \A i \in 1..Len(refs) :
            LET r == refs[i]
                loaded == LoadObject_UBlueprint(r.referencer_path)
            IN
            /\ ~StartsWith(r.referencer_path, "/Script/")
            /\ ~StartsWith(r.referencer_path, "/Engine/")
            /\ r.type = (IF loaded THEN "Blueprint" ELSE "Asset")
            /\ HasField(r, "reference_locations") <=> (loaded /\ TargetFunction # "")
            /\ HasField(r, "reference_locations")
               => LocatesExactly(r.reference_locations, CallsOf(blueprint, TargetFunction))
       /\ \E pos \in [1..Len(refs) -> 1..Len(index)] :
            /\ \A i \in 1..Len(refs) : index[pos[i]] = refs[i].referencer_path
            /\ \A i, j \in 1..Len(refs) : i < j => pos[i] < pos[j]

\* C25: every referencer a find_blueprint_references lists lies outside
\* /Script/ and /Engine/ and the list follows the order of the index; its
\* type is Blueprint when it loads as a Blueprint and Asset when it does not;
\* it carries reference_locations exactly when it loaded and target_function
\* is not empty, and these then are the call nodes of the referencer, of all
\* its graphs, whose target function has that name, each once.
C25_ReferencersDescribed == [][C25_ReferencersStep]_vars

\* after a redirect to NewFunc the referencing Blueprint shows two calls of
\* NewFunc, next to a level that is listed as an asset without locations
C25_Witness ==
    /\ ReferencesAsked(request)
    /\ StringParam(request.params, "target_function") = "NewFunc"
    /\ HasField(response, "referencers")
    /\ \E i, j \in 1..Len(response.referencers) :
         /\ i < j
         /\ response.referencers[i].type = "Asset"
         /\ ~HasField(response.referencers[i], "reference_locations")
         /\ response.referencers[j].type = "Blueprint"
         /\ Len(response.referencers[j].reference_locations) = 2

\* the graph documents of a file: those of an export, or the graph_data of
\* the backup of a delete
GraphDocsOf(doc) ==
    IF HasField(doc, "graphs") THEN doc.graphs
    ELSE IF HasField(doc, "graph_data") THEN <<doc.graph_data>>
    ELSE <<>>

\* the graph of the Blueprint with that name
HostGraph(bp, Name) == CHOOSE g \in Range(GetAllGraphs(bp)) : g.name = Name

\* names and directions of a list of serialized pins, in the list's order
Listed(pinDocs) == [i \in 1..Len(pinDocs) |-> <<pinDocs[i].name, pinDocs[i].direction>>]

\* names and directions of the node's pins of one direction, in Pins order
Declared(node, direction) ==
    LET sel == SelectSeq(node.pins, LAMBDA q : q.direction = direction) IN
    [i \in 1..Len(sel) |-> <<sel[i].name, direction>>]

\* the links of the node's pin of that name, as the host holds them
LinkedTo(node, name) ==
    LET q == CHOOSE q \in Range(node.pins) : q.name = name IN
    [l \in 1..Len(q.links) |-> <<q.links[l].node_guid, q.links[l].pin_name>>]

\* the serialized node has the node's pins, each in the list of its direction
NodeAsDeclared(nodeDoc, node) ==
    /\ nodeDoc.guid = node.guid
    /\ Listed(nodeDoc.input_pins) = Declared(node, "Input")
    /\ Listed(nodeDoc.output_pins) = Declared(node, "Output")
    /\ Len(nodeDoc.input_pins) + Len(nodeDoc.output_pins) = Len(node.pins)
    /\ \A d \in Range(nodeDoc.input_pins) \cup Range(nodeDoc.output_pins) :
          [l \in 1..Len(ConnectionsOf(d)) |->
              <<ConnectionsOf(d)[l].node_guid, ConnectionsOf(d)[l].pin_name>>]
            = LinkedTo(node, d.name)

\* a serializer of the export kind wrote this step's file: an export of either
\* module, or the backup of a delete by the monolithic handler
SerializedBy(req, resp) ==
    \/ Exported(req, resp)
    \/ /\ req.command = "delete_blueprint_function"
       /\ req.module = "handler"
       /\ HasField(resp, "backup_path")

C26_OrderStep ==
    (Answers /\ SerializedBy(request', response'))
    => LET path == IF HasField(response', "file_path")
                   THEN response'.file_path ELSE response'.backup_path
           docs == GraphDocsOf(files'[path])
       IN
       /\ Len(docs) > 0 \/ Exported(request', response')
       /\ \A i \in 1..Len(docs) :
            LET g == HostGraph(blueprint, docs[i].name)
                nodes == SelectSeq(g.nodes, LAMBDA n : n # NullNode)
            IN
            /\ Len(docs[i].nodes) = Len(nodes)
            /\ \A k \in 1..Len(nodes) : NodeAsDeclared(docs[i].nodes[k], nodes[k])

\* C26: the export serializer, in the command class and in the monolithic
\* handler, lists the nodes of a graph in the order of the graph's Nodes, the
\* pins of a node in the input list or in the output list by their direction,
\* every pin in one list, each list in the order of the node's Pins, and the
\* connections of a pin in the order of its LinkedTo; no list is sorted or
\* merged, and the null entries of Nodes are the only ones passed over.
C26_HostOrderKept == [][C26_OrderStep]_vars

\* DoWork was serialized: Amount follows then on the entry node and keeps its
\* two links in the host's order, G6 before G5
C26_Witness ==
    /\ Exported(request, response)
    /\ \E i \in 1..Len(files[response.file_path].graphs) :
         LET gd == files[response.file_path].graphs[i] IN
         /\ gd.name = "DoWork"
         /\ Listed(gd.nodes[1].output_pins)
              = << <<"then", "Output">>, <<"Amount", "Output">> >>
         /\ gd.nodes[1].output_pins[2].connections
              = << [node_guid |-> "G6", pin_name |-> "B"],
                   [node_guid |-> "G5", pin_name |-> "A"] >>

\* the answer of a get_blueprint_functions that listed its Blueprint
Listed_Functions(req, resp) ==
    req.command = "get_blueprint_functions" /\ HasField(resp, "functions")

\* name and type of the entries expected for one event-graph page
PageShape(graph) ==
    LET events == SelectSeq(graph.nodes, LAMBDA n : n.class = "K2Node_Event") IN
    [i \in 1..Len(events) |-> <<events[i].member, "Event">>]
    \o << <<graph.name, "EventGraph">> >>

\* name and type of the entries expected for the Blueprint, in their order
FunctionsShape(bp) ==
    [i \in 1..Len(bp.FunctionGraphs) |-> <<bp.FunctionGraphs[i].name, "Function">>]
    \o Flatten([i \in 1..Len(bp.UbergraphPages) |-> PageShape(bp.UbergraphPages[i])])
    \o [i \in 1..Len(bp.MacroGraphs) |-> <<bp.MacroGraphs[i].name, "Macro">>]

FunctionEntryFields ==
    {"name", "graph_name", "node_count", "is_event", "is_override", "type"}

\* the entries are those of the function graphs, of each page's events and
\* the page, and of the macro graphs, and function_count is their number
C27_ShapeStep ==
    (Answers /\ Listed_Functions(request', response'))
    => /\ response'.function_count = Len(response'.functions)
       /\ [i \in 1..Len(response'.functions) |->
              <<response'.functions[i].name, response'.functions[i].type>>]
            = FunctionsShape(blueprint)

C27_FieldsStep ==
    (Answers /\ Listed_Functions(request', response'))
    => \A i \in 1..Len(response'.functions) :
          FunctionEntryFields \subseteq DOMAIN response'.functions[i]

C27_FunctionsStep == C27_ShapeStep /\ C27_FieldsStep

\* C27: a get_blueprint_functions answers function_count equal to the length
\* of functions; functions holds one entry per function graph, then for each
\* event-graph page one entry per event node and one for the page, then one
\* entry per macro graph; and every entry carries name, graph_name,
\* node_count, is_event, is_override and type.
C27_FunctionsListed == [][C27_FunctionsStep]_vars

\* the node identifiers of the change list a redirect response reports
Discovered(resp) == {resp.changes[i].node_guid : i \in 1..Len(resp.changes)}

\* the node is the same but for the function it calls
SameButTarget(after, before) == after = [before EXCEPT !.fn = after.fn]

\* how often the handler called SetFromFunction on the node
Rewrites(eff, guid) ==
    Cardinality({j \in 1..Len(eff) :
                   eff[j].call = "SetFromFunction" /\ eff[j].arg = guid})

C28_FrameStep ==
    (Answers /\ request'.command = "redirect_function_call" /\ Applied(response'))
    => LET D == Discovered(response')
           before == GetAllGraphs(blueprint)
           after == GetAllGraphs(blueprint')
       IN
       /\ D # {}
       /\ \A l \in {"UbergraphPages", "FunctionGraphs", "MacroGraphs"} :
             Len(blueprint'[l]) = Len(blueprint[l])
       /\ blueprint'.ParentClass = blueprint.ParentClass
       /\ \A i \in 1..Len(before) :
            /\ after[i].name = before[i].name
            /\ after[i].class = before[i].class
            /\ Len(after[i].nodes) = Len(before[i].nodes)
            /\ \A k \in 1..Len(before[i].nodes) :
                 LET n == before[i].nodes[k]
                     m == after[i].nodes[k]
                 IN  /\ SameButTarget(m, n)
                     /\ m.fn = (IF n.guid \in D THEN TargetOf(request') ELSE n.fn)
                     /\ Rewrites(effects', n.guid) = (IF n.guid \in D THEN 1 ELSE 0)
       /\ D \subseteq {n.guid : n \in AllNodes(blueprint)}

\* C28: a redirect_function_call that applies changes nothing but the target
\* function of the nodes of its change list: the Blueprint keeps its graphs,
\* every graph its nodes in their order, every node its identifier, position
\* and pins, every node outside the change list the function it called, and
\* every node of the change list is rewritten once, to the resolved target.
C28_ApplyChangesTargetsOnly == [][C28_FrameStep]_vars

\* the two calls of OldFunc now call NewClass::NewFunc, the calls of Other and
\* of DoWork are what they were
C28_Witness ==
    /\ request.command = "redirect_function_call"
    /\ Applied(response)
    /\ Discovered(response) = {"G2", "G3"}
    /\ NodeByGuid(blueprint, "G2").fn = Fn("NewClass", "NewFunc")
    /\ NodeByGuid(blueprint, "G3").fn = Fn("NewClass", "NewFunc")
    /\ NodeByGuid(blueprint, "G5").fn = Fn("OldClass", "Other")
    /\ NodeByGuid(blueprint, "G9").fn = Fn("Actor", "DoWork")
    /\ Rewrites(effects, "G2") = 1 /\ Rewrites(effects, "G3") = 1

\* the handler marked the Blueprint modified
Marks(eff) == \E j \in 1..Len(eff) : eff[j].call = "MarkBlueprintAsModified"

\* the response is a failure, a dry run or a run without matches
NoMutationResponse(req, resp) ==
    \/ HasField(resp, "error")
    \/ /\ req.command = "redirect_function_call"
       /\ HasField(resp, "nodes_found")
       /\ ~HasField(resp, "nodes_redirected")

C29_CompileStep ==
    (Answers /\ request'.command \in MutationCommands)
    => /\ HasField(response', "requires_compile")
            <=> (Mutates(effects') /\ Marks(effects'))
       /\ HasField(response', "requires_compile")
            => /\ response'.requires_compile = TRUE
               /\ blueprint'.modified
       /\ NoMutationResponse(request', response')
            => /\ ~HasField(response', "requires_compile")
               /\ blueprint' = blueprint
       /\ ~HasField(response', "requires_compile")
            => NoMutationResponse(request', response')

\* C29: a response of redirect_function_call, delete_blueprint_function or
\* set_blueprint_parent_class carries requires_compile, and then with the
\* value true, exactly when the call changed the Blueprint and marked it
\* modified; a failure, a dry run and a run without matches carry no
\* requires_compile and leave the Blueprint, its modified mark included, as
\* they found it.
C29_RequiresCompileIffMutated == [][C29_CompileStep]_vars

\* a dry run after a delete: the mark of the delete is still there, the dry
\* run's response asks for no compile
C29_DryRunAfterDelete ==
    /\ served = 2
    /\ request.command = "redirect_function_call"
    /\ HasField(response, "nodes_found") /\ response.nodes_found > 0
    /\ ~HasField(response, "requires_compile")
    /\ effects = <<>>
    /\ blueprint.modified
    /\ Len(blueprint.FunctionGraphs) = 1

\* a reparent that went through asks for a compile
C29_Witness ==
    /\ request.command = "set_blueprint_parent_class"
    /\ HasField(response, "requires_compile") /\ response.requires_compile
    /\ Mutates(effects) /\ Marks(effects)
    /\ blueprint.modified

(***************************************************************************)
(* C30: after any sequence of RegisterAllMigrationCommands and             *)
(* UnregisterAllMigrationCommands calls, RegisteredCommandNames holds,     *)
(* without duplicates, exactly the migration command names the registry    *)
(* currently holds; so once the list is empty again, as it is after        *)
(* UnregisterAllMigrationCommands, none of the seven remains registered.   *)
(***************************************************************************)
C30_TrackedNamesAreRegistered ==
    /\ NoDuplicates(RegisteredCommandNames)
    /\ Range(RegisteredCommandNames) = Commands \cap MigrationCommands

\* the seven commands are registered and tracked after the first registration
C30_RegisteredAndTracked ==
    /\ Commands = MigrationCommands
    /\ Range(RegisteredCommandNames) = MigrationCommands

\* a second registration without an unregistration in between is refused by
\* the registry name by name, and the list emptied at its start stays empty
C30_RegisteredUntracked ==
    /\ Commands = MigrationCommands
    /\ RegisteredCommandNames = <<>>

====
